---- MODULE Spec2Model ----
(***************************************************************************)
(* A model of pyphotwrappers' AstrOmatic scripting layer                   *)
(* (src/astromatic.py): the configuration store AstromaticConfiguration,   *)
(* the proxy files ProxyInputFile / ProxyOutputFile and the invocation     *)
(* protocol AstromaticTool._invoke_tool.                                   *)
(*                                                                         *)
(* Python strings are sequences of one-character strings, so that          *)
(* str.split, str.strip and str.startswith are computed character by       *)
(* character.  Python's None is the one-element sequence <<"None">>, which *)
(* is no Python string of the model (its element has four characters).     *)
(***************************************************************************)
EXTENDS Integers, Sequences, FiniteSets, TLC

VARIABLES
    initial_cfgstr,   \* AstromaticConfiguration._initial_cfgstr
    config_items,     \* AstromaticConfiguration._config_items   (list of names)
    config_settings,  \* AstromaticConfiguration._config_settings (dict name -> value)
    config_comments,  \* AstromaticConfiguration._config_comments (dict name -> str)
    inst_dict,        \* the store's other instance attributes (its __dict__)
    proxies,          \* the proxy objects: content, configname, tempfileobj
    fs,               \* the file system: path -> contents of every existing file
    pc,               \* where _invoke_tool is: "idle" between calls
    call,             \* _invoke_tool's arguments and local variables; its
                      \* `arguments` list is also self.lastinvocation
    lastop,           \* the last store operation and its outcome
    created,          \* ghost: the temp files the current call created
    materialized,     \* ghost: the proxies the current call gave a temp file
    released,         \* ghost: per proxy, how often the current call released it
    spawned,          \* ghost: how many child processes the current call started
    nops,             \* ghost: how many operations the caller has started
    tool,             \* the driver object (AstromaticTool and its subclasses):
                      \* its attributes other than cfg
    callers           \* the driver calls of two processes that share the file
                      \* system: the position and the local variables of each

vars == <<initial_cfgstr, config_items, config_settings, config_comments,
          inst_dict, proxies, fs, pc, call, lastop,
          created, materialized, released, spawned, nops, tool, callers>>

storeVars == <<initial_cfgstr, config_items, config_settings, config_comments, inst_dict>>
engineVars == <<fs, pc, call, created, materialized, released, spawned>>

None == <<"None">>

----------------------------------------------------------------------------
(* Python's str methods, as the parser uses them *)

IsSpace(c) == c \in {" ", "\t", "\n", "\r"}

StartsWith(s, c) == Len(s) > 0 /\ s[1] = c

RECURSIVE LStrip(_)
LStrip(s) == IF s # <<>> /\ IsSpace(Head(s)) THEN LStrip(Tail(s)) ELSE s

RECURSIVE RStrip(_)
RStrip(s) == IF s # <<>> /\ IsSpace(s[Len(s)]) THEN RStrip(SubSeq(s, 1, Len(s) - 1)) ELSE s

Strip(s) == RStrip(LStrip(s))

\* s.split(sep) for a one-character separator: always at least one piece
RECURSIVE Split(_, _)
Split(s, sep) ==
    IF \A i \in 1..Len(s) : s[i] # sep THEN <<s>>
    ELSE LET i == CHOOSE k \in 1..Len(s) : s[k] = sep /\ \A j \in 1..(k - 1) : s[j] # sep
         IN  <<SubSeq(s, 1, i - 1)>> \o Split(SubSeq(s, i + 1, Len(s)), sep)

\* s.split(): the whitespace-delimited tokens, none of them empty
RECURSIVE SplitWs(_)
SplitWs(s) ==
    LET t == LStrip(s) IN
    IF t = <<>> THEN <<>>
    ELSE LET ends == {k \in 1..Len(t) : IsSpace(t[k])}
             n == IF ends = {} THEN Len(t) + 1
                  ELSE CHOOSE k \in ends : \A j \in ends : k <= j
         IN  <<SubSeq(t, 1, n - 1)>> \o SplitWs(SubSeq(t, n, Len(t)))

\* sep.join(pieces)
RECURSIVE Join(_, _)
Join(sep, pieces) ==
    IF pieces = <<>> THEN <<>>
    ELSE IF Len(pieces) = 1 THEN pieces[1]
    ELSE pieces[1] \o sep \o Join(sep, Tail(pieces))

----------------------------------------------------------------------------
(* Values of configuration items: a str or a reference to a proxy object *)

Lit(s) == [kind |-> "str", v |-> s]
Px(p) == [kind |-> "proxy", v |-> p]

InputProxyIds == {<<"in1">>, <<"in2">>}
OutputProxyIds == {<<"out1">>, <<"out2">>}
ProxyIds == InputProxyIds \cup OutputProxyIds

IsProxyInputFile(val) == val.kind = "proxy" /\ val.v \in InputProxyIds
IsProxyOutputFile(val) == val.kind = "proxy" /\ val.v \in OutputProxyIds

\* ProxyInputFile.__init__(content)
ProxyInputFile(content) == [content |-> content, configname |-> None, tempfileobj |-> None]

\* ProxyOutputFile.__init__()
ProxyOutputFile == [content |-> None, configname |-> None, tempfileobj |-> None]

----------------------------------------------------------------------------
(* AstromaticConfiguration._parse_config_file *)

EmptyStore == [items |-> <<>>, settings |-> <<>>, comments |-> <<>>, exc |-> "None"]

\* a loop body that skips a line with only white space before its `#`
ParseLine_SkipsContinuation(st, l) ==
    IF st.exc # "None" THEN st
    ELSE IF StartsWith(l, "#") \/ Strip(l) = <<>> THEN st
    ELSE
    LET ls == Split(l, "#") IN
    IF Len(ls) > 2 THEN [st EXCEPT !.exc = "ValueError"]
    ELSE
    LET content == ls[1]
        comment == IF Len(ls) > 1 THEN ls[2] ELSE <<>>
        contentstrip == Strip(content)
    IN
    IF contentstrip = <<>> THEN st
    ELSE LET contentsplit == SplitWs(contentstrip)
             nm == contentsplit[1]
             val == IF Len(contentsplit) > 1
                    THEN Strip(SubSeq(contentstrip, Len(nm) + 1, Len(contentstrip)))
                    ELSE <<>>
         IN  [st EXCEPT !.items = Append(@, nm),
                        !.settings = (nm :> Lit(val)) @@ @,
                        !.comments = (nm :> comment) @@ @]

\* the body of the loop over the lines of the dump, for one line l
ParseLine(st, l) ==
    IF st.exc # "None" THEN st
    ELSE IF StartsWith(l, "#") \/ Strip(l) = <<>> THEN st
    ELSE
    LET ls == Split(l, "#") IN
    IF Len(ls) > 2 THEN [st EXCEPT !.exc = "ValueError"]  \* content, comment = ls
    ELSE
    LET content == ls[1]
        comment == IF Len(ls) > 1 THEN ls[2] ELSE <<>>
        contentstrip == Strip(content)
    IN
    IF contentstrip = <<>>
    THEN \* a continuation of the previous comment
         IF st.items = <<>> THEN [st EXCEPT !.exc = "IndexError"]  \* _config_items[-1]
         ELSE LET lasti == st.items[Len(st.items)]
              IN  [st EXCEPT !.comments[lasti] = @ \o <<" ">> \o Strip(comment)]
    ELSE LET contentsplit == SplitWs(contentstrip)
             nm == contentsplit[1]
             val == IF Len(contentsplit) > 1
                    THEN Strip(SubSeq(contentstrip, Len(nm) + 1, Len(contentstrip)))
                    ELSE <<>>
         IN  [st EXCEPT !.items = Append(@, nm),
                        !.settings = (nm :> Lit(val)) @@ @,
                        !.comments = (nm :> comment) @@ @]

RECURSIVE ParseLines(_, _)
ParseLines(st, lines) ==
    IF lines = <<>> THEN st ELSE ParseLines(ParseLine(st, Head(lines)), Tail(lines))

parse_config_file(configstr) == ParseLines(EmptyStore, Split(configstr, "\n"))

\* AstromaticConfiguration.__init__ for a dict: one item per key, in the
\* order `order` in which the dict yields its keys; values are stored as
\* given and no comment is known
RECURSIVE ConfigFromMapping(_, _)
ConfigFromMapping(order, config) ==
    IF order = <<>> THEN EmptyStore
    ELSE LET st == ConfigFromMapping(SubSeq(order, 1, Len(order) - 1), config)
             nm == order[Len(order)]
         IN  [st EXCEPT !.items = Append(@, nm),
                        !.settings = (nm :> config[nm]) @@ @,
                        !.comments = (nm :> <<>>) @@ @]

----------------------------------------------------------------------------
(* AstromaticConfiguration: item access *)

NoValue == [kind |-> "none", v |-> <<>>]

InItems(name, items) == \E i \in 1..Len(items) : items[i] = name

\* __getitem__: self._config_settings[key]
getitem(settings, key) ==
    IF key \in DOMAIN settings
    THEN [exc |-> "None", result |-> settings[key]]
    ELSE [exc |-> "KeyError", result |-> NoValue]

\* an assignment as a plain dict would do it, without the membership test
\* of __setitem__
setitem_AnyName(items, settings, px, key, value) ==
    [exc |-> "None",
     settings |-> (key :> value) @@ settings,
     px |-> IF value.kind = "proxy"
            THEN [px EXCEPT ![value.v].configname = key]
            ELSE px]

\* an assignment that stores the value and leaves the proxy's configname
\* alone
setitem_NoBinding(items, settings, px, key, value) ==
    IF InItems(key, items)
    THEN [exc |-> "None", settings |-> [settings EXCEPT ![key] = value], px |-> px]
    ELSE [exc |-> "KeyError", settings |-> settings, px |-> px]

\* __setitem__: the new settings and proxy objects, or KeyError
setitem(items, settings, px, key, value) ==
    IF InItems(key, items)
    THEN [exc |-> "None",
          settings |-> [settings EXCEPT ![key] = value],
          px |-> IF value.kind = "proxy"   \* hasattr(value, 'configname')
                 THEN [px EXCEPT ![value.v].configname = key]
                 ELSE px]
    ELSE [exc |-> "KeyError", settings |-> settings, px |-> px]

\* attribute lookup cfg.<name>: the instance __dict__ first, __getattr__ when
\* the normal lookup fails
getattr(items, settings, dict, name) ==
    IF name \in DOMAIN dict
    THEN [exc |-> "None", result |-> dict[name]]
    ELSE IF StartsWith(name, "_") \/ ~InItems(name, items)
    THEN [exc |-> "AttributeError", result |-> NoValue]  \* object.__getattribute__
    ELSE [exc |-> "None", result |-> settings[name]]

\* __setattr__: through __setitem__ for an item, else a plain attribute
setattr(items, settings, px, dict, name, value) ==
    IF InItems(name, items)
    THEN LET r == setitem(items, settings, px, name, value)
         IN  [exc |-> r.exc, settings |-> r.settings, px |-> r.px, dict |-> dict]
    ELSE [exc |-> "None", settings |-> settings, px |-> px,
          dict |-> (name :> value) @@ dict]  \* object.__setattr__

----------------------------------------------------------------------------
(* AstromaticConfiguration: rendering *)

PROXY_INPUT_FILE_NOT_PRESENT ==
    <<"P","R","O","X","Y"," ","I","N","P","U","T"," ","F","I","L","E"," ",
      "N","O","T"," ","P","R","E","S","E","N","T">>

PROXY_OUTPUT_FILE_NOT_PRESENT ==
    <<"P","R","O","X","Y"," ","O","U","T","P","U","T"," ","F","I","L","E"," ",
      "N","O","T"," ","P","R","E","S","E","N","T">>

\* get_normalized_items: the loop over _config_items from item i on, elems
\* being what was appended so far
RECURSIVE NormalizeFrom(_, _, _, _, _, _)
NormalizeFrom(items, settings, px, acceptungenerated, i, elems) ==
    IF i > Len(items) THEN [exc |-> "None", elems |-> elems]
    ELSE
    LET iname == items[i]
        val == settings[iname]
        next(e) == NormalizeFrom(items, settings, px, acceptungenerated, i + 1,
                                 Append(elems, <<iname, e>>))
    IN
    IF IsProxyInputFile(val) THEN
        IF px[val.v].tempfileobj # None THEN next(px[val.v].tempfileobj)
        ELSE IF acceptungenerated THEN next(PROXY_INPUT_FILE_NOT_PRESENT)
        ELSE [exc |-> "ValueError", elems |-> <<>>]
    ELSE IF IsProxyOutputFile(val) THEN
        IF px[val.v].tempfileobj # None THEN next(px[val.v].tempfileobj)
        ELSE IF acceptungenerated THEN next(PROXY_OUTPUT_FILE_NOT_PRESENT)
        ELSE [exc |-> "ValueError", elems |-> <<>>]
    ELSE IF val.kind = "str" THEN next(val.v)
    ELSE [exc |-> "TypeError", elems |-> <<>>]

\* a rendering that never raises for an ungenerated proxy file, whatever
\* acceptungenerated is
get_normalized_items_Lenient(items, settings, px, acceptungenerated) ==
    NormalizeFrom(items, settings, px, TRUE, 1, <<>>)

get_normalized_items(items, settings, px, acceptungenerated) ==
    NormalizeFrom(items, settings, px, acceptungenerated, 1, <<>>)

\* get_proxies: the proxy objects of the items, in item order
RECURSIVE get_proxies(_, _)
get_proxies(items, settings) ==
    IF items = <<>> THEN [ins |-> <<>>, outs |-> <<>>]
    ELSE LET r == get_proxies(SubSeq(items, 1, Len(items) - 1), settings)
             val == settings[items[Len(items)]]
         IN  IF IsProxyInputFile(val) THEN [r EXCEPT !.ins = Append(@, val.v)]
             ELSE IF IsProxyOutputFile(val) THEN [r EXCEPT !.outs = Append(@, val.v)]
             ELSE r

RECURSIVE CmdlineOf(_)
CmdlineOf(elems) ==
    IF elems = <<>> THEN <<>>
    ELSE <<(<<"-">> \o elems[1][1]), elems[1][2]>> \o CmdlineOf(Tail(elems))

\* get_cmdline_arguments: the list of argv entries
get_cmdline_arguments(items, settings, px) ==
    LET r == get_normalized_items(items, settings, px, FALSE)
    IN  [exc |-> r.exc, val |-> IF r.exc = "None" THEN CmdlineOf(r.elems) ELSE <<>>]

\* a file text with the items on one line, ' '.join(lines) in place of
\* '\n'.join(lines)
get_file_contents_SpaceJoined(items, settings, px) ==
    LET r == get_normalized_items(items, settings, px, FALSE)
        lines == [i \in 1..Len(r.elems) |-> r.elems[i][1] \o <<" ">> \o r.elems[i][2]]
    IN  [exc |-> r.exc, val |-> IF r.exc = "None" THEN Join(<<" ">>, lines) ELSE <<>>]

\* get_file_contents: the text of a configuration file
get_file_contents(items, settings, px) ==
    LET r == get_normalized_items(items, settings, px, FALSE)
        lines == [i \in 1..Len(r.elems) |-> r.elems[i][1] \o <<" ">> \o r.elems[i][2]]
    IN  [exc |-> r.exc, val |-> IF r.exc = "None" THEN Join(<<"\n">>, lines) ELSE <<>>]

----------------------------------------------------------------------------
(* Bounds and inputs *)

NumTempNames == 4     \* how many temporary file names exist
MaxOps == 4           \* how many assignments and invocations a behaviour has

nameA == <<"A">>
nameB == <<"B">>
nameQ == <<"Q">>      \* declared by no dump
KeyInputs == {nameA, nameB, nameQ}

\* lines of configuration dumps
LineAx == <<"A", " ", "x">>                        \* A x
LineByc == <<"B", " ", "y", " ", "#", " ", "c">>   \* B y # c
LineAzw == <<"A", " ", " ", "z", " ", "w", " ">>   \* A  z w    (A again)
LineCont == <<" ", "#", " ", "k">>                 \*  # k      (continuation)
LineB == <<"B">>                                   \* B
LineFull == <<"#", " ", "f">>                      \* # f      (only a comment)
LineBlank == <<" ">>                               \* a blank line

\* the dumps a store is constructed from
CfgDumps ==
    { Join(<<"\n">>, <<LineAx, LineByc, <<>>>>),
      Join(<<"\n">>, <<LineAx, LineAzw>>),
      Join(<<"\n">>, <<LineB, LineCont, LineAx>>),
      Join(<<"\n">>, <<LineCont, LineAx>>),
      Join(<<"\n">>, <<LineFull, LineAx, LineBlank, LineCont>>) }

\* the values a caller assigns to an item
LiteralInputs == { <<"v">>, <<>>, <<"v", "#", "w">>, <<" ", "v">> }
CfgValues == {Lit(s) : s \in LiteralInputs} \cup {Px(<<"in1">>)}
AttrValues == {Lit(<<"v">>), Px(<<"in1">>)}

EngineKeys == {nameA, nameB}
EngineValues == {Lit(<<"v">>), Px(<<"in1">>), Px(<<"out1">>), Px(<<"out2">>)}

EXECPATH == <<"s", "e", "x">>        \* self.execpath
ConfigPath == <<"c", "f", "g">>      \* a file name passed as useconfig
ArgInputs == {<<>>, << <<"i">> >>}   \* the `arguments` of a call
RetCodes == {0, 1}
ValidRetCodeInputs == {{0}, {0, 1}}
UseConfigInputs == {<<"True">>, <<"False">>, ConfigPath}
ChildStdout == <<"o">>
ChildStderrs == {<<"e">>}
ChildOutput == <<"d">>               \* what the child writes to an output file

Digits == <<"1", "2", "3", "4", "5", "6", "7", "8", "9">>
TempNameOf(i) == <<"t", "m", "p", Digits[i]>>
TempNames == {TempNameOf(i) : i \in 1..NumTempNames}

----------------------------------------------------------------------------
(* State *)

\* _invoke_tool's parameters and locals; extra_args keeps the `arguments`
\* parameter as passed, childout/childerr what the child wrote to its
\* standard streams, outfiles the temp files made for output proxies
NoCall == [extra_args |-> <<>>, arguments |-> <<>>, validretcodes |-> {},
           useconfig |-> <<"False">>, showoutput |-> FALSE,
           inproxies |-> <<>>, outproxies |-> <<>>, outfiles |-> <<>>,
           retcode |-> -1, childout |-> None, childerr |-> None,
           stdout |-> None, stderr |-> None, exc |-> "None", excargs |-> <<>>]

NoOp == [op |-> "none", exc |-> "None", result |-> NoValue, out |-> <<>>,
         store |-> EmptyStore]

\* no driver object constructed
\* a process that is in no driver call; input is what the child process of
\* its last call found in the image file it was given
NoCaller == [pc |-> "idle", cls |-> "none", imgfn |-> None, decompfn |-> None,
             tempfileobj |-> None, input |-> None, ncalls |-> 0]
Callers == {1, 2}

NoTool == [cls |-> "none", execpath |-> None, autodecompress |-> FALSE,
           keeptemps |-> FALSE, warnings |-> 0, lastinvocation |-> None,
           lastimgfn |-> None, lastmasterimgfn |-> None,
           renameoutputs |-> None, checkimgpath |-> None, outputs |-> <<>>,
           fluxscalebytexp |-> FALSE, pstopdf |-> TRUE, lastcats |-> None,
           copies |-> {}]

InitProxies ==
    [p \in ProxyIds |-> IF p \in InputProxyIds THEN ProxyInputFile(<<"k">>)
                        ELSE ProxyOutputFile]

\* AstromaticConfiguration.__init__(config) for a str: the state once the
\* constructor has returned, or has raised (pc = "failed": no store exists)
InitFromDump(configstr) ==
    LET st == parse_config_file(configstr) IN
    /\ initial_cfgstr = configstr
    /\ config_items = st.items
    /\ config_settings = st.settings
    /\ config_comments = st.comments
    /\ inst_dict = <<>>
    /\ proxies = InitProxies
    /\ fs = <<>>
    /\ pc = IF st.exc = "None" THEN "idle" ELSE "failed"
    /\ call = NoCall
    /\ lastop = [NoOp EXCEPT !.op = "init", !.exc = st.exc]
    /\ created = {}
    /\ materialized = {}
    /\ released = [p \in ProxyIds |-> 0]
    /\ spawned = 0
    /\ nops = 0
    /\ tool = NoTool
    /\ callers = [c \in Callers |-> NoCaller]

InitCfg == \E configstr \in CfgDumps : InitFromDump(configstr)

----------------------------------------------------------------------------
(* Store operations, as a caller performs them between invocations *)

\* cfg[key] = value
SetItem(key, value) ==
    /\ pc = "idle"
    /\ LET r == setitem(config_items, config_settings, proxies, key, value) IN
       /\ config_settings' = r.settings
       /\ proxies' = r.px
       /\ lastop' = [NoOp EXCEPT !.op = "setitem", !.exc = r.exc]
    /\ UNCHANGED <<initial_cfgstr, config_items, config_comments, inst_dict>>
    /\ UNCHANGED engineVars

\* cfg[key]
GetItem(key) ==
    /\ pc = "idle"
    /\ LET r == getitem(config_settings, key) IN
       lastop' = [NoOp EXCEPT !.op = "getitem", !.exc = r.exc, !.result = r.result]
    /\ UNCHANGED <<storeVars, proxies, engineVars>>

\* cfg.<name> = value
SetAttr(name, value) ==
    /\ pc = "idle"
    /\ LET r == setattr(config_items, config_settings, proxies, inst_dict, name, value) IN
       /\ config_settings' = r.settings
       /\ proxies' = r.px
       /\ inst_dict' = r.dict
       /\ lastop' = [NoOp EXCEPT !.op = "setattr", !.exc = r.exc]
    /\ UNCHANGED <<initial_cfgstr, config_items, config_comments>>
    /\ UNCHANGED engineVars

\* cfg.<name>
GetAttr(name) ==
    /\ pc = "idle"
    /\ LET r == getattr(config_items, config_settings, inst_dict, name) IN
       lastop' = [NoOp EXCEPT !.op = "getattr", !.exc = r.exc, !.result = r.result]
    /\ UNCHANGED <<storeVars, proxies, engineVars>>

\* cfg.get_normalized_items(acceptungenerated)
GetNormalizedItems(acceptungenerated) ==
    /\ pc = "idle"
    /\ LET r == get_normalized_items(config_items, config_settings, proxies,
                                     acceptungenerated) IN
       lastop' = [NoOp EXCEPT !.op = "get_normalized_items", !.exc = r.exc,
                              !.out = r.elems]
    /\ UNCHANGED <<storeVars, proxies, engineVars>>

\* cfg.get_cmdline_arguments()
GetCmdlineArguments ==
    /\ pc = "idle"
    /\ LET r == get_cmdline_arguments(config_items, config_settings, proxies) IN
       lastop' = [NoOp EXCEPT !.op = "get_cmdline_arguments", !.exc = r.exc,
                              !.out = r.val]
    /\ UNCHANGED <<storeVars, proxies, engineVars>>

\* cfg.get_file_contents()
GetFileContents ==
    /\ pc = "idle"
    /\ LET r == get_file_contents(config_items, config_settings, proxies) IN
       lastop' = [NoOp EXCEPT !.op = "get_file_contents", !.exc = r.exc,
                              !.out = r.val]
    /\ UNCHANGED <<storeVars, proxies, engineVars>>

\* AstromaticConfiguration(cfg.get_file_contents()): a second store is
\* constructed from the file contents of this one (lastop.store)
Reload ==
    /\ pc = "idle"
    /\ LET r == get_file_contents(config_items, config_settings, proxies)
           st == parse_config_file(r.val)
       IN  IF r.exc # "None"
           THEN lastop' = [NoOp EXCEPT !.op = "reload", !.exc = r.exc]
           ELSE lastop' = [NoOp EXCEPT !.op = "reload", !.exc = st.exc,
                                       !.out = r.val, !.store = st]
    /\ UNCHANGED <<storeVars, proxies, engineVars>>

NextCfg ==
    /\ UNCHANGED <<nops, tool, callers>>
    /\ \/ \E key \in KeyInputs, value \in CfgValues : SetItem(key, value)
       \/ \E key \in KeyInputs : GetItem(key)
       \/ \E name \in KeyInputs, value \in AttrValues : SetAttr(name, value)
       \/ \E name \in KeyInputs : GetAttr(name)
       \/ \E acceptungenerated \in BOOLEAN : GetNormalizedItems(acceptungenerated)
       \/ GetCmdlineArguments
       \/ GetFileContents
       \/ Reload

SpecCfg == InitCfg /\ [][NextCfg]_vars

----------------------------------------------------------------------------
(* The file system *)

isfile(files, name) == name \in DOMAIN files
WriteFile(files, name, content) == (name :> content) @@ files
remove(files, name) == [n \in DOMAIN files \ {name} |-> files[n]]

FreeTempNames(files) == TempNames \ DOMAIN files

\* NamedTemporaryFile(delete=False).name: the name of a file that did not
\* exist; which of the unused names is taken does not matter to the caller
NamedTemporaryFile(files) ==
    TempNameOf(CHOOSE i \in 1..NumTempNames :
                  /\ TempNameOf(i) \notin DOMAIN files
                  /\ \A j \in 1..(i - 1) : TempNameOf(j) \in DOMAIN files)

----------------------------------------------------------------------------
(* AstromaticTool._invoke_tool *)

\* a preparation that empties the content of an output proxy
PrepareProxy_ClearsContent(st, p, fault) ==
    IF st.exc # "None" THEN st
    ELSE IF fault = "create" THEN [st EXCEPT !.exc = "OSError"]
    ELSE
    LET nm == NamedTemporaryFile(st.fs)
        st1 == [st EXCEPT !.px[p].tempfileobj = nm,
                          !.px[p].content = IF p \in OutputProxyIds THEN <<>> ELSE @,
                          !.fs = WriteFile(@, nm, <<>>),
                          !.created = @ \cup {nm},
                          !.materialized = @ \cup {p},
                          !.outfiles = IF p \in OutputProxyIds THEN Append(@, nm) ELSE @]
    IN  IF p \in InputProxyIds
        THEN IF fault = "write" THEN [st1 EXCEPT !.exc = "IOError"]
             ELSE [st1 EXCEPT !.fs = WriteFile(@, nm, st.px[p].content)]
        ELSE st1

\* preparing one proxy file: the body of the loops over inproxies and
\* outproxies.  fault is "create" when NamedTemporaryFile raises, "write"
\* when writing the content raises, "none" otherwise
PrepareProxy(st, p, fault) ==
    IF st.exc # "None" THEN st
    ELSE IF fault = "create" THEN [st EXCEPT !.exc = "OSError"]
    ELSE
    LET nm == NamedTemporaryFile(st.fs)
        st1 == [st EXCEPT !.px[p].tempfileobj = nm,
                          !.fs = WriteFile(@, nm, <<>>),
                          !.created = @ \cup {nm},
                          !.materialized = @ \cup {p},
                          !.outfiles = IF p \in OutputProxyIds THEN Append(@, nm) ELSE @]
    IN  IF p \in InputProxyIds
        THEN IF fault = "write" THEN [st1 EXCEPT !.exc = "IOError"]
             ELSE [st1 EXCEPT !.fs = WriteFile(@, nm, st.px[p].content)]
        ELSE st1

RECURSIVE PrepareProxies(_, _, _, _, _)
PrepareProxies(st, all, i, failAt, fault) ==
    IF i > Len(all) THEN st
    ELSE PrepareProxies(PrepareProxy(st, all[i], IF i = failAt THEN fault ELSE "none"),
                        all, i + 1, failAt, fault)

\* an argument list with the configuration after the caller's arguments in
\* every mode: arguments.extend(['-c', useconfig]) in place of the two
\* arguments.insert(0, ...)
BuildArguments_ConfigLast(arguments, useconfig, openfails, items, settings, px, files) ==
    IF useconfig = <<"False">>
    THEN [exc |-> "None", fs |-> files, arguments |-> <<EXECPATH>> \o arguments]
    ELSE IF useconfig # <<"True">>
    THEN IF openfails THEN [exc |-> "IOError", fs |-> files, arguments |-> arguments]
         ELSE LET r == get_file_contents(items, settings, px) IN
              IF r.exc # "None"
              THEN [exc |-> r.exc, fs |-> WriteFile(files, useconfig, <<>>),
                    arguments |-> arguments]
              ELSE [exc |-> "None", fs |-> WriteFile(files, useconfig, r.val),
                    arguments |-> <<EXECPATH>> \o arguments \o <<<<"-", "c">>, useconfig>>]
    ELSE LET r == get_cmdline_arguments(items, settings, px) IN
         IF r.exc # "None"
         THEN [exc |-> r.exc, fs |-> files, arguments |-> arguments]
         ELSE [exc |-> "None", fs |-> files,
               arguments |-> <<EXECPATH>> \o arguments \o r.val]

\* constructing the invocation arguments.  openfails: open(useconfig, 'w') raises
BuildArguments(arguments, useconfig, openfails, items, settings, px, files) ==
    IF useconfig = <<"False">>
    THEN [exc |-> "None", fs |-> files, arguments |-> <<EXECPATH>> \o arguments]
    ELSE IF useconfig # <<"True">>      \* isinstance(useconfig, basestring)
    THEN IF openfails THEN [exc |-> "IOError", fs |-> files, arguments |-> arguments]
         ELSE LET r == get_file_contents(items, settings, px) IN
              IF r.exc # "None"
              THEN [exc |-> r.exc, fs |-> WriteFile(files, useconfig, <<>>),
                    arguments |-> arguments]
              ELSE [exc |-> "None", fs |-> WriteFile(files, useconfig, r.val),
                    arguments |-> <<EXECPATH, <<"-", "c">>, useconfig>> \o arguments]
    ELSE LET r == get_cmdline_arguments(items, settings, px) IN
         IF r.exc # "None"
         THEN [exc |-> r.exc, fs |-> files, arguments |-> arguments]
         ELSE [exc |-> "None", fs |-> files,
               arguments |-> <<EXECPATH>> \o arguments \o r.val]

\* what the child does to the output files it was given: write to it, leave
\* it as it is, or delete it
RECURSIVE ChildEffects(_, _, _, _)
ChildEffects(files, outfiles, effects, i) ==
    IF i > Len(outfiles) THEN files
    ELSE LET nm == outfiles[i]
             files1 == IF ~isfile(files, nm) THEN files
                       ELSE IF effects[i] = "write" THEN WriteFile(files, nm, ChildOutput)
                       ELSE IF effects[i] = "delete" THEN remove(files, nm)
                       ELSE files
         IN  ChildEffects(files1, outfiles, effects, i + 1)

\* the same with the two streams in the other order in the error:
\* AstromaticError(msg, stdout, stderr)
Communicate_StdoutFirst(c, validretcodes, showoutput, retcode, childerr) ==
    LET stdout == IF showoutput THEN None ELSE ChildStdout
        stderr == IF showoutput THEN None ELSE childerr
        msg == <<"Running of {0} failed with retcode {1}", EXECPATH, retcode>>
        c1 == [c EXCEPT !.validretcodes = validretcodes, !.showoutput = showoutput,
                        !.retcode = retcode, !.childout = ChildStdout,
                        !.childerr = childerr, !.stdout = stdout, !.stderr = stderr]
    IN  IF retcode \notin validretcodes
        THEN [c1 EXCEPT !.exc = "AstromaticError", !.excargs = <<msg, stdout, stderr>>]
        ELSE c1

\* p.communicate() and the check of p.returncode
Communicate(c, validretcodes, showoutput, retcode, childerr) ==
    LET stdout == IF showoutput THEN None ELSE ChildStdout
        stderr == IF showoutput THEN None ELSE childerr
        msg == <<"Running of {0} failed with retcode {1}", EXECPATH, retcode>>
        c1 == [c EXCEPT !.validretcodes = validretcodes, !.showoutput = showoutput,
                        !.retcode = retcode, !.childout = ChildStdout,
                        !.childerr = childerr, !.stdout = stdout, !.stderr = stderr]
    IN  IF retcode \notin validretcodes
        THEN [c1 EXCEPT !.exc = "AstromaticError", !.excargs = <<msg, stderr, stdout>>]
        ELSE c1

\* a read-back that stops after the first output proxy
ReadOutputs_FirstOnly(st, outproxies, files, i) ==
    IF i > Len(outproxies) \/ st.exc # "None" THEN st
    ELSE LET outp == outproxies[i]
             nm == st.px[outp].tempfileobj
         IN  IF ~isfile(files, nm)
             THEN [st EXCEPT !.exc = "IOError"]
             ELSE [st EXCEPT !.px[outp].content = files[nm]]

\* getting the content from the output proxies
RECURSIVE ReadOutputs(_, _, _, _)
ReadOutputs(st, outproxies, files, i) ==
    IF i > Len(outproxies) \/ st.exc # "None" THEN st
    ELSE LET outp == outproxies[i]
             nm == st.px[outp].tempfileobj
         IN  IF ~isfile(files, nm)
             THEN [st EXCEPT !.exc = "IOError"]     \* open(..., 'r') raises
             ELSE ReadOutputs([st EXCEPT !.px[outp].content = files[nm]],
                              outproxies, files, i + 1)

\* a finally block that deletes the files and keeps the proxies' tempfileobj
RECURSIVE ReleaseAll_KeepsTempfileobj(_, _, _)
ReleaseAll_KeepsTempfileobj(st, allproxies, i) ==
    IF i > Len(allproxies) THEN st
    ELSE LET px == allproxies[i]
             nm == st.px[px].tempfileobj
         IN  IF nm # None
             THEN ReleaseAll_KeepsTempfileobj(
                      [st EXCEPT !.fs = IF isfile(@, nm) THEN remove(@, nm) ELSE @,
                                 !.released[px] = @ + 1],
                      allproxies, i + 1)
             ELSE ReleaseAll_KeepsTempfileobj(st, allproxies, i + 1)

\* the finally block: close and delete all.  st.rmfail is the position in
\* allproxies of the proxy whose os.remove raises (0: none does); the
\* exception leaves the loop
RECURSIVE ReleaseAll(_, _, _)
ReleaseAll(st, allproxies, i) ==
    IF i > Len(allproxies) THEN st
    ELSE LET px == allproxies[i]
             nm == st.px[px].tempfileobj
         IN  IF nm # None /\ i = st.rmfail /\ isfile(st.fs, nm)
             THEN [st EXCEPT !.exc = "OSError"]
             ELSE IF nm # None
             THEN ReleaseAll([st EXCEPT !.fs = IF isfile(@, nm) THEN remove(@, nm) ELSE @,
                                        !.px[px].tempfileobj = None,
                                        !.released[px] = @ + 1],
                             allproxies, i + 1)
             ELSE ReleaseAll(st, allproxies, i + 1)

\* _invoke_tool(arguments, ...) up to the end of the loops that prepare the
\* proxy files.  The parameters validretcodes, useconfig and showoutput are
\* drawn at the step that first reads them.
InvokePrepare(arguments, failAt, fault) ==
    /\ pc = "idle"
    /\ LET pr == get_proxies(config_items, config_settings)
           allproxies == pr.ins \o pr.outs
           st0 == [px |-> proxies, fs |-> fs, created |-> {}, materialized |-> {},
                   outfiles |-> <<>>, exc |-> "None"]
           st == PrepareProxies(st0, allproxies, 1, failAt, fault)
       IN  /\ Cardinality(FreeTempNames(fs)) >= Len(allproxies)
           /\ failAt \in 0..Len(allproxies)
           /\ failAt = 0 => fault = "create"
           /\ (failAt > 0 /\ fault = "write") => allproxies[failAt] \in InputProxyIds
           /\ proxies' = st.px
           /\ fs' = st.fs
           /\ created' = st.created
           /\ materialized' = st.materialized
           /\ released' = [p \in ProxyIds |-> 0]
           /\ spawned' = 0
           /\ call' = [NoCall EXCEPT !.extra_args = arguments, !.arguments = arguments,
                                     !.inproxies = pr.ins, !.outproxies = pr.outs,
                                     !.outfiles = st.outfiles, !.exc = st.exc]
           /\ pc' = IF st.exc = "None" THEN "arguments" ELSE "finally"
    /\ lastop' = NoOp
    /\ UNCHANGED storeVars

\* the construction of the invocation arguments (self.lastinvocation)
InvokeBuildArguments(useconfig, openfails) ==
    /\ pc = "arguments"
    /\ openfails => useconfig = ConfigPath
    /\ LET r == BuildArguments(call.arguments, useconfig, openfails, config_items,
                               config_settings, proxies, fs)
       IN  /\ fs' = r.fs
           /\ call' = [call EXCEPT !.useconfig = useconfig, !.arguments = r.arguments,
                                   !.exc = r.exc]
           /\ pc' = IF r.exc = "None" THEN "popen" ELSE "finally"
    /\ UNCHANGED <<storeVars, proxies, lastop, created, materialized, released, spawned>>

\* subprocess.Popen raises: no child runs
InvokePopenFails ==
    /\ pc = "popen"
    /\ call' = [call EXCEPT !.exc = "OSError"]
    /\ pc' = "finally"
    /\ UNCHANGED <<storeVars, proxies, fs, lastop, created,
                   materialized, released, spawned>>

\* the child runs to its end: p.communicate() and the return code check
InvokeCommunicate(validretcodes, showoutput, retcode, childerr, effects) ==
    /\ pc = "popen"
    /\ spawned' = spawned + 1
    /\ fs' = ChildEffects(fs, call.outfiles, effects, 1)
    /\ call' = Communicate(call, validretcodes, showoutput, retcode, childerr)
    /\ pc' = IF call'.exc = "None" THEN "readback" ELSE "finally"
    /\ UNCHANGED <<storeVars, proxies, lastop, created, materialized,
                   released>>

\* the loop that reads the output proxies' files
InvokeReadBack ==
    /\ pc = "readback"
    /\ LET st == ReadOutputs([px |-> proxies, exc |-> "None"], call.outproxies, fs, 1)
       IN  /\ proxies' = st.px
           /\ call' = [call EXCEPT !.exc = st.exc]
    /\ pc' = "finally"
    /\ UNCHANGED <<storeVars, fs, lastop, created, materialized,
                   released, spawned>>

\* the finally block
InvokeFinally ==
    /\ pc = "finally"
    /\ LET st == ReleaseAll([px |-> proxies, fs |-> fs, released |-> released,
                             rmfail |-> 0, exc |-> "None"],
                            call.inproxies \o call.outproxies, 1)
       IN  /\ proxies' = st.px
           /\ fs' = st.fs
           /\ released' = st.released
    /\ pc' = "return"
    /\ UNCHANGED <<storeVars, call, lastop, created, materialized, spawned>>

\* return stdout, stderr -- or the pending exception propagates
InvokeReturn ==
    /\ pc = "return"
    /\ pc' = "idle"
    /\ call' = NoCall
    /\ created' = {}
    /\ materialized' = {}
    /\ released' = [p \in ProxyIds |-> 0]
    /\ spawned' = 0
    /\ UNCHANGED <<storeVars, proxies, fs, lastop>>

----------------------------------------------------------------------------
(* The tool driver with its store: construction, then any sequence of
   assignments to items and invocations *)

EngineDump == Join(<<"\n">>, <<LineAx, LineByc, <<>>>>)

Init == InitFromDump(EngineDump)

Next ==
    \/ /\ nops < MaxOps
       /\ nops' = nops + 1
       /\ UNCHANGED <<tool, callers>>
       /\ \/ \E key \in EngineKeys, value \in EngineValues : SetItem(key, value)
          \/ \E arguments \in ArgInputs, failAt \in 0..2, fault \in {"create", "write"} :
                InvokePrepare(arguments, failAt, fault)
    \/ /\ UNCHANGED <<nops, tool, callers>>
       /\ \/ \E acceptungenerated \in BOOLEAN : GetNormalizedItems(acceptungenerated)
          \/ \E useconfig \in UseConfigInputs, openfails \in BOOLEAN :
                InvokeBuildArguments(useconfig, openfails)
          \/ InvokePopenFails
          \/ \E validretcodes \in ValidRetCodeInputs, showoutput \in BOOLEAN,
                retcode \in RetCodes, childerr \in ChildStderrs,
                effects \in [1..Len(call.outfiles) -> {"write", "leave", "delete"}] :
                InvokeCommunicate(validretcodes, showoutput, retcode, childerr, effects)
          \/ InvokeReadBack
          \/ InvokeFinally
          \/ InvokeReturn

Spec == Init /\ [][Next]_vars

----------------------------------------------------------------------------
(* The drivers Sextractor (src/sextractor.py) and Swarp (src/swarp.py):
   the strings they use *)

CATALOG_NAME ==
    <<"C", "A", "T", "A", "L", "O", "G", "_", "N", "A", "M", "E">>
CATALOG_TYPE ==
    <<"C", "A", "T", "A", "L", "O", "G", "_", "T", "Y", "P", "E">>
FILTER_NAME == <<"F", "I", "L", "T", "E", "R", "_", "N", "A", "M", "E">>
PARAMETERS_NAME ==
    <<"P", "A", "R", "A", "M", "E", "T", "E", "R", "S", "_", "N", "A", "M",
      "E">>
IMAGEOUT_NAME ==
    <<"I", "M", "A", "G", "E", "O", "U", "T", "_", "N", "A", "M", "E">>
WEIGHT_TYPE == <<"W", "E", "I", "G", "H", "T", "_", "T", "Y", "P", "E">>
WEIGHT_IMAGE ==
    <<"W", "E", "I", "G", "H", "T", "_", "I", "M", "A", "G", "E">>
WEIGHT_SUFFIX ==
    <<"W", "E", "I", "G", "H", "T", "_", "S", "U", "F", "F", "I", "X">>
HEADER_SUFFIX ==
    <<"H", "E", "A", "D", "E", "R", "_", "S", "U", "F", "F", "I", "X">>
FSCALE_DEFAULT ==
    <<"F", "S", "C", "A", "L", "E", "_", "D", "E", "F", "A", "U", "L", "T">>

\* what `sex -dd` prints, cut down to the items the driver uses
SexDump ==
    <<"C", "A", "T", "A", "L", "O", "G", "_", "N", "A", "M", "E", " ", "c",
      "a", "t", "\n", "C", "A", "T", "A", "L", "O", "G", "_", "T", "Y",
      "P", "E", " ", "A", "S", "C", "I", "I", " ", "#", " ", "N", "O", "N",
      "E", ",", "A", "S", "C", "I", "I", ",", "\n", " ", "#", " ", "A",
      "S", "C", "I", "I", "_", "V", "O", "T", "A", "B", "L", "E", " ", "o",
      "r", " ", "F", "I", "T", "S", "_", "L", "D", "A", "C", "\n", "F",
      "I", "L", "T", "E", "R", "_", "N", "A", "M", "E", " ", "f", "\n",
      "P", "A", "R", "A", "M", "E", "T", "E", "R", "S", "_", "N", "A", "M",
      "E", " ", "p", "\n">>

\* what `swarp -dd` prints, cut down to the items the driver uses
SwarpDump ==
    <<"I", "M", "A", "G", "E", "O", "U", "T", "_", "N", "A", "M", "E", " ",
      "o", "\n", "W", "E", "I", "G", "H", "T", "_", "T", "Y", "P", "E",
      " ", "N", "O", "N", "E", "\n", "W", "E", "I", "G", "H", "T", "_",
      "S", "U", "F", "F", "I", "X", " ", ".", "w", "\n", "W", "E", "I",
      "G", "H", "T", "_", "I", "M", "A", "G", "E", " ", "w", "\n", "H", "E", "A",
      "D", "E", "R", "_", "S", "U", "F", "F", "I", "X", " ", ".", "h",
      "\n", "F", "S", "C", "A", "L", "E", "_", "D", "E", "F", "A", "U",
      "L", "T", " ", "1", "\n">>

\* items and values of Scamp's configuration
CHECKPLOT_DEV == <<"C", "H", "E", "C", "K", "P", "L", "O", "T", "_", "D", "E", "V">>
PNG == <<"P", "N", "G">>
PSC == <<"P", "S", "C">>
XWIN == <<"X", "W", "I", "N">>

\* what `scamp -dd` prints, cut down to the items the driver uses
ScampDump ==
    CHECKPLOT_DEV \o <<" ", "P", "N", "G", "\n", "X", "M", "L", "_", "N", "A", "M", "E",
                       " ", "x", "\n">>

\* _CONV_FILTER_FILE_CONTENTS, the first two of its kernels; the two grave
\* accents of the first comment line are written as apostrophes
CONV_FILTER_FILE_CONTENTS ==
    <<"#", "#", "d", "e", "f", "a", "u", "l", "t", ".", "c", "o", "n", "v",
      "\n", "C", "O", "N", "V", " ", "N", "O", "R", "M", "\n", "#", " ",
      "3", "x", "3", " ", "'", "'", "a", "l", "l", "-", "g", "r", "o", "u",
      "n", "d", "'", "'", " ", "c", "o", "n", "v", "o", "l", "u", "t", "i",
      "o", "n", " ", "m", "a", "s", "k", " ", "w", "i", "t", "h", " ", "F",
      "W", "H", "M", " ", "=", " ", "2", " ", "p", "i", "x", "e", "l", "s",
      ".", "\n", "1", " ", "2", " ", "1", "\n", "2", " ", "4", " ", "2",
      "\n", "1", " ", "2", " ", "1", "\n", "#", "#", "b", "l", "o", "c",
      "k", "_", "3", "x", "3", ".", "c", "o", "n", "v", "\n", "C", "O",
      "N", "V", " ", "N", "O", "R", "M", "\n", "#", " ", "3", "x", "3",
      " ", "c", "o", "n", "v", "o", "l", "u", "t", "i", "o", "n", " ", "m",
      "a", "s", "k", " ", "o", "f", " ", "a", " ", "b", "l", "o", "c", "k",
      "-", "f", "u", "n", "c", "t", "i", "o", "n", " ", "P", "S", "F", " ",
      "(", "e", "x", ":", " ", "D", "e", "N", "I", "S", " ", "P", "S", "F",
      ")", ".", "\n", "1", " ", "1", " ", "1", "\n", "1", " ", "1", " ",
      "1", "\n", "1", " ", "1", " ", "1">>

PLACEHOLDER == <<"P", "L", "A", "C", "E", "H", "O", "L", "D", "E", "R">>
\* the content Sextractor.__init__ gives the proxy of PARAMETERS_NAME
PARAMETERS_PLACEHOLDER ==
    <<"P", "L", "A", "C", "E", "H", "O", "L", "D", "E", "R", ":", " ", "W",
      "I", "L", "L", " ", "B", "E", " ", "P", "O", "P", "U", "L", "A", "T",
      "E", "D", " ", "B", "Y", " ", "S", "e", "x", "t", "r", "a", "c", "t",
      "o", "r", " ", "C", "L", "A", "S", "S">>
DashDD == <<"-", "d", "d">>
DashDP == <<"-", "d", "p">>
Decompressed == <<"u">>   \* what a decompresser writes
\* names of convolution filters a caller asks for
DefaultFilter == <<"d", "e", "f", "a", "u", "l", "t">>
BlockFilter == <<"b", "l", "o", "c", "k", "_", "3", "x", "3">>
NoSuchFilter == <<"n", "o", "s", "u", "c", "h">>
\* values of CATALOG_TYPE
ASCII == <<"A", "S", "C", "I", "I">>
ASCII_VOTABLE ==
    <<"A", "S", "C", "I", "I", "_", "V", "O", "T", "A", "B", "L", "E">>
FITS_LDAC == <<"F", "I", "T", "S", "_", "L", "D", "A", "C">>
NONE == <<"N", "O", "N", "E">>
\* a value of WEIGHT_TYPE
MAP_WEIGHT == <<"M", "A", "P", "_", "W", "E", "I", "G", "H", "T">>
\* os.path.join(tempfile.gettempdir(), tempfile.gettempprefix())
TempFilePrefix == <<"/", "t", "m", "p", "/", "t", "m", "p">>
\* the keys of exttodecompresser
ExtFz == <<".", "f", "z">>
ExtGz == <<".", "g", "z">>
DotFits == <<".", "f", "i", "t", "s">>
\* image files a caller passes
ImgA == <<"a", ".", "f", "i", "t", "s", ".", "f", "z">>
ImgB == <<"b", ".", "f", "i", "t", "s", ".", "g", "z">>
ImgC == <<"c", ".", "f", "i", "t", "s">>
ImgD == <<"d", "/", "a", ".", "f", "i", "t", "s", ".", "f", "z">>
\* header and weight files a caller passes
HeadA == <<"a", ".", "h", "d">>
WeightA == <<"a", ".", "w", "t">>

\* the columns set_outputs_from_scamp() adds to FLUX_AUTO, FLUXERR_AUTO and
\* FLAGS when it is given no Scamp object
ScampOutputs ==
    << <<"X", "W", "I", "N", "_", "I", "M", "A", "G", "E">>,
       <<"Y", "W", "I", "N", "_", "I", "M", "A", "G", "E">>,
       <<"F", "L", "U", "X", "_", "R", "A", "D", "I", "U", "S">>,
       <<"E", "R", "R", "A", "W", "I", "N", "_", "I", "M", "A", "G", "E">>,
       <<"E", "R", "R", "B", "W", "I", "N", "_", "I", "M", "A", "G", "E">>,
       <<"E", "R", "R", "T", "H", "E", "T", "A", "W", "I", "N", "_", "I", "M", "A", "G", "E">> >>

\* Sextractor.reset_outputs: the default output columns
DefaultOutputs ==
    << <<"N", "U", "M", "B", "E", "R">>,
       <<"F", "L", "U", "X", "E", "R", "R", "_", "I", "S", "O">>,
       <<"F", "L", "U", "X", "_", "A", "U", "T", "O">>,
       <<"F", "L", "U", "X", "E", "R", "R", "_", "A", "U", "T", "O">>,
       <<"X", "_", "I", "M", "A", "G", "E">>,
       <<"Y", "_", "I", "M", "A", "G", "E">>,
       <<"F", "L", "A", "G", "S">> >>

----------------------------------------------------------------------------
(* Python's str methods and os.path functions, as the drivers use them *)

EndsWith(s, suffix) ==
    /\ Len(s) >= Len(suffix)
    /\ SubSeq(s, Len(s) - Len(suffix) + 1, Len(s)) = suffix

\* sub in s
Contains(s, sub) ==
    \E i \in 1..(Len(s) - Len(sub) + 1) : SubSeq(s, i, i + Len(sub) - 1) = sub

\* s.find(sub) + 1, 0 when sub is not in s
Find(s, sub) ==
    IF Contains(s, sub)
    THEN CHOOSE i \in 1..(Len(s) - Len(sub) + 1) :
             /\ SubSeq(s, i, i + Len(sub) - 1) = sub
             /\ \A j \in 1..(i - 1) : SubSeq(s, j, j + Len(sub) - 1) # sub
    ELSE 0

\* s.replace(old, new)
RECURSIVE Replace(_, _, _)
Replace(s, old, new) ==
    LET i == Find(s, old) IN
    IF i = 0 THEN s
    ELSE SubSeq(s, 1, i - 1) \o new \o Replace(SubSeq(s, i + Len(old), Len(s)), old, new)

\* s.split(sep)[0]
BeforeFirst(s, sep) == LET i == Find(s, sep) IN IF i = 0 THEN s ELSE SubSeq(s, 1, i - 1)

UpperCase == <<"A", "B", "C", "D", "E", "F", "G", "H", "I", "J", "K", "L", "M",
               "N", "O", "P", "Q", "R", "S", "T", "U", "V", "W", "X", "Y", "Z">>
LowerCase == <<"a", "b", "c", "d", "e", "f", "g", "h", "i", "j", "k", "l", "m",
               "n", "o", "p", "q", "r", "s", "t", "u", "v", "w", "x", "y", "z">>

\* s.lower()
lower(s) ==
    [i \in 1..Len(s) |->
        IF \E k \in 1..26 : UpperCase[k] = s[i]
        THEN LowerCase[CHOOSE k \in 1..26 : UpperCase[k] = s[i]]
        ELSE s[i]]

\* the position of the last "/" of a path, 0 when it has none
LastSlash(path) ==
    IF \E i \in 1..Len(path) : path[i] = "/"
    THEN CHOOSE i \in 1..Len(path) :
             path[i] = "/" /\ \A j \in (i + 1)..Len(path) : path[j] # "/"
    ELSE 0

\* os.path.split(path)[1] and os.path.split(path)[0], for the paths of the
\* model (no directory but / has a trailing slash)
basename(path) == SubSeq(path, LastSlash(path) + 1, Len(path))
dirname(path) == IF LastSlash(path) <= 1 THEN SubSeq(path, 1, LastSlash(path))
                 ELSE SubSeq(path, 1, LastSlash(path) - 1)

\* os.path.join(a, b) for a relative b
pathjoin(a, b) == IF a = <<>> \/ a[Len(a)] = "/" THEN a \o b ELSE a \o <<"/">> \o b

----------------------------------------------------------------------------
(* Sextractor: the convolution filter catalogue and the output catalogue *)

\* the objects the driver constructs: the model has one object per place of
\* construction, which is the object constructed there last (the driver
\* keeps no reference to the earlier ones)
FilterProxy == <<"in1">>        \* ProxyInputFile(fcontents) of set_conv_filter
ParametersProxy == <<"in2">>    \* ProxyInputFile('PLACEHOLDER...') of __init__
CatalogProxy == <<"out1">>      \* ProxyOutputFile() of use_proxy_catalog

IsFilterHeader(l) == Len(l) >= 2 /\ SubSeq(l, 1, 2) = <<"#", "#">>

\* l[2:-5] of a line  ##NAME.conv
FilterNameOf(l) == SubSeq(l, 3, Len(l) - 5)

\* _CONV_FILTER_NAMES, as the module level loop builds it
CONV_FILTER_NAMES ==
    LET lines == Split(CONV_FILTER_FILE_CONTENTS, "\n")
    IN  {FilterNameOf(lines[i]) : i \in {j \in 1..Len(lines) : IsFilterHeader(lines[j])}}

\* the loop of choose_conv_filter over the lines of the catalogue
RECURSIVE FilterLines(_, _, _, _)
FilterLines(lines, fname, infilter, flines) ==
    IF lines = <<>> THEN flines
    ELSE LET l == Head(lines) IN
         IF IsFilterHeader(l)
         THEN FilterLines(Tail(lines), fname, FilterNameOf(l) = fname, flines)
         ELSE FilterLines(Tail(lines), fname, infilter,
                          IF infilter THEN Append(flines, l) ELSE flines)

\* a selection that does not look the name up in _CONV_FILTER_NAMES
choose_conv_filter_NoNameCheck(items, settings, px, dict, fname) ==
    LET fstr == Join(<<"\n">>, FilterLines(Split(CONV_FILTER_FILE_CONTENTS, "\n"),
                                           fname, FALSE, <<>>))
        px1 == [px EXCEPT ![FilterProxy] = ProxyInputFile(fstr)]
        r == setattr(items, settings, px1, dict, FILTER_NAME, Px(FilterProxy))
    IN  [exc |-> r.exc, fstr |-> fstr, settings |-> r.settings, px |-> r.px,
         dict |-> r.dict]

\* choose_conv_filter(fname) with set_conv_filter: the store and the proxy
\* objects afterwards, and the string returned
choose_conv_filter(items, settings, px, dict, fname) ==
    IF fname \notin CONV_FILTER_NAMES
    THEN [exc |-> "ValueError", fstr |-> None, settings |-> settings, px |-> px,
          dict |-> dict]
    ELSE LET fstr == Join(<<"\n">>, FilterLines(Split(CONV_FILTER_FILE_CONTENTS, "\n"),
                                                fname, FALSE, <<>>))
             px1 == [px EXCEPT ![FilterProxy] = ProxyInputFile(fstr)]
             r == setattr(items, settings, px1, dict, FILTER_NAME, Px(FilterProxy))
         IN  [exc |-> r.exc, fstr |-> fstr, settings |-> r.settings, px |-> r.px,
              dict |-> r.dict]

\* the valid types use_proxy_catalog reads from the comment of CATALOG_TYPE
ValidTypes(comments) ==
    LET pieces == Split(Replace(comments[CATALOG_TYPE], <<"o", "r">>, <<",">>), ",")
    IN  {Strip(pieces[i]) : i \in {j \in 1..Len(pieces) : Strip(pieces[j]) # <<>>}}

\* use_proxy_catalog(outtype), outtype None or a str
use_proxy_catalog(items, settings, comments, px, dict, outtype) ==
    IF outtype # None /\ outtype \notin ValidTypes(comments)
    THEN [exc |-> "ValueError", settings |-> settings, px |-> px, dict |-> dict]
    ELSE LET r1 == IF outtype = None
                   THEN [exc |-> "None", settings |-> settings, px |-> px, dict |-> dict]
                   ELSE setattr(items, settings, px, dict, CATALOG_TYPE, Lit(outtype))
             px1 == [r1.px EXCEPT ![CatalogProxy] = ProxyOutputFile]
         IN  setattr(items, r1.settings, px1, r1.dict, CATALOG_NAME, Px(CatalogProxy))

\* what get_output returns: the content as it is ("raw", None included) or
\* the table a reader of astropy makes of the content
Raw(content) == [kind |-> "raw", v |-> content]
Table(reader, content) == [kind |-> reader, v |-> content]

\* a reader of astropy applied to the content; it raises for None
ReadTable(reader, content) ==
    IF content = None THEN [exc |-> "TypeError", result |-> NoValue]
    ELSE [exc |-> "None", result |-> Table(reader, content)]

\* get_output(astable), renameoutputs being None
get_output(settings, px, files, astable) ==
    LET cat == settings[CATALOG_NAME]
        isproxy == cat.kind = "proxy"              \* hasattr(..., 'content')
        missing == ~isproxy /\ ~isfile(files, cat.v)
        content == IF isproxy THEN px[cat.v].content
                   ELSE IF missing THEN None ELSE files[cat.v]
        lcattype == lower(settings[CATALOG_TYPE].v)
    IN  IF missing THEN [exc |-> "IOError", result |-> NoValue]
        ELSE IF ~astable THEN [exc |-> "None", result |-> Raw(content)]
        ELSE IF Contains(lcattype, <<"v", "o", "t", "a", "b", "l", "e">>)
        THEN ReadTable("votable", content)
        ELSE IF Contains(lcattype, <<"a", "s", "c", "i", "i">>)
        THEN ReadTable("ascii", content)
        ELSE IF Contains(lcattype, <<"f", "i", "t", "s">>)
        THEN ReadTable("fits", content)
        ELSE [exc |-> "None", result |-> Raw(None)]   \* falls off the end

----------------------------------------------------------------------------
(* _invoke_tool run from its first line to its return or raise, as the
   drivers call it *)

\* how one run of the tool goes: failAt/fault as in PrepareProxies, popenfails
\* when subprocess.Popen raises, the child's return code and what it does
\* to the output files it was given, rmfail as in ReleaseAll
NoFault == [failAt |-> 0, fault |-> "create", popenfails |-> FALSE, retcode |-> 0,
            effect |-> "write", rmfail |-> 0]

\* AstromaticTool._invoke_tool(arguments, [0], useconfig, showoutput); a
\* driver without cfg has the empty item list
invoke_tool(items, settings, px, files, arguments, useconfig, showoutput, env) ==
    LET \* the finally block, and what the caller sees
        Raised(rb, rel, ran, lastinv) ==
            [exc |-> IF rel.exc # "None" THEN rel.exc ELSE rb.exc,
             px |-> rel.px, fs |-> rel.fs, ran |-> ran, lastinvocation |-> lastinv,
             \* ghost: what the child found in the files of the input proxies
             infiles |-> IF ran
                         THEN [p \in {q \in InputProxyIds : rb.px[q].tempfileobj # None} |->
                                  rel.infiles[rb.px[p].tempfileobj]]
                         ELSE <<>>]
        Finish(allproxies, rb, fs2, ran, lastinv) ==
            Raised(rb,
                   ReleaseAll([px |-> rb.px, fs |-> fs2, infiles |-> fs2,
                               released |-> [p \in ProxyIds |-> 0],
                               rmfail |-> env.rmfail, exc |-> "None"], allproxies, 1),
                   ran, lastinv)
        \* the child has ended with exc2: getting the content from the outputs
        Collect(pr, st, fs2, exc2, ran, lastinv) ==
            Finish(pr.ins \o pr.outs,
                   IF exc2 = "None"
                   THEN ReadOutputs([px |-> st.px, exc |-> "None"], pr.outs, fs2, 1)
                   ELSE [px |-> st.px, exc |-> exc2],
                   fs2, ran, lastinv)
        \* subprocess.Popen and p.communicate()
        Run(pr, st, b) ==
            LET ran == b.exc = "None" /\ ~env.popenfails
                c == Communicate(NoCall, {0}, showoutput, env.retcode, <<"e">>)
            IN  Collect(pr, st,
                        IF ran
                        THEN ChildEffects(b.fs, st.outfiles,
                                          [i \in 1..Len(st.outfiles) |-> env.effect], 1)
                        ELSE b.fs,
                        IF b.exc # "None" THEN b.exc
                        ELSE IF env.popenfails THEN "OSError" ELSE c.exc,
                        ran,
                        IF b.exc = "None" THEN b.arguments ELSE None)
        \* the proxies' files are prepared: constructing the arguments
        Build(pr, st) ==
            Run(pr, st,
                IF st.exc # "None"
                THEN [exc |-> st.exc, fs |-> st.fs, arguments |-> None]
                ELSE BuildArguments(arguments, useconfig, FALSE, items, settings,
                                    st.px, st.fs))
        Prepare(pr) ==
            Build(pr, PrepareProxies([px |-> px, fs |-> files, created |-> {},
                                      materialized |-> {}, outfiles |-> <<>>,
                                      exc |-> "None"],
                                     pr.ins \o pr.outs, 1, env.failAt, env.fault))
    IN  Prepare(get_proxies(items, settings))

\* Sextractor.reset_outputs(): the value self.outputs gets
reset_outputs == DefaultOutputs

\* the columns `sex -dp` lists (self.valid_outputs), cut down to those the
\* driver names
valid_outputs == DefaultOutputs \o ScampOutputs

\* Sextractor.add_outputs(vals) for a list vals, from its element i on
RECURSIVE add_outputs(_, _, _)
add_outputs(outputs, vals, i) ==
    IF i > Len(vals) THEN [exc |-> "None", outputs |-> outputs]
    ELSE IF ~InItems(vals[i], valid_outputs)
    THEN [exc |-> "ValueError", outputs |-> outputs]
    ELSE add_outputs(IF InItems(vals[i], outputs) THEN outputs
                     ELSE Append(outputs, vals[i]),
                     vals, i + 1)

\* the tuple of set_outputs_from_scamp(scamp=None)
ScampDefaultOutputs ==
    <<ScampOutputs[1], ScampOutputs[2], DefaultOutputs[3], DefaultOutputs[4],
      ScampOutputs[3], ScampOutputs[4], ScampOutputs[5], ScampOutputs[6],
      DefaultOutputs[7]>>

\* Sextractor.set_outputs_from_scamp(None, reset), up to the assignment of
\* CATALOG_TYPE
set_outputs_from_scamp(outputs, reset) ==
    add_outputs(IF reset THEN <<>> ELSE outputs, ScampDefaultOutputs, 1)

\* an invocation that leaves the output columns in the parameter proxy
sextractor_invoke_tool_NoRestore(outputs, items, settings, px, files, arguments, useconfig, showoutput, env) ==
    invoke_tool(items, settings,
                IF /\ items # <<>>
                   /\ settings[PARAMETERS_NAME].kind = "proxy"
                THEN [px EXCEPT ![settings[PARAMETERS_NAME].v].content =
                                    Join(<<"\n">>, outputs)]
                ELSE px,
                files, arguments, useconfig, showoutput, env)

\* Sextractor._invoke_tool: the parameter file's placeholder content is
\* replaced by the output columns for the time of the call
sextractor_invoke_tool(outputs, items, settings, px, files, arguments, useconfig, showoutput, env) ==
    LET hascontent == /\ items # <<>>                      \* self.cfg is not None
                      /\ settings[PARAMETERS_NAME].kind = "proxy"
        pn == settings[PARAMETERS_NAME].v
        Restore(oldcontent, r) ==                          \* finally
            IF oldcontent # None THEN [r EXCEPT !.px[pn].content = oldcontent] ELSE r
        Call(oldcontent) ==
            Restore(oldcontent,
                    invoke_tool(items, settings,
                                IF /\ oldcontent # None
                                   /\ Len(oldcontent) >= Len(PLACEHOLDER)
                                   /\ SubSeq(oldcontent, 1, Len(PLACEHOLDER)) = PLACEHOLDER
                                THEN [px EXCEPT ![pn].content = Join(<<"\n">>, outputs)]
                                ELSE px,
                                files, arguments, useconfig, showoutput, env))
    IN  Call(IF hascontent THEN px[pn].content ELSE None)

----------------------------------------------------------------------------
(* Executable discovery and automatic decompression *)

\* _which_path(execname): the path `which` prints, or None with a warning
\* when it finds nothing (or cannot be run)
which_path(found) ==
    IF found THEN [path |-> EXECPATH, warnings |-> 0]
    ELSE [path |-> None, warnings |-> 1]

\* the extension of fn that has a decompresser, None when it has none
DecompressExt(fn) ==
    IF EndsWith(fn, ExtFz) THEN ExtFz
    ELSE IF EndsWith(fn, ExtGz) THEN ExtGz
    ELSE None

\* Sextractor._try_decompress(fn).  dec is how the decompresser ends: "ok"
\* (it wrote the file, return code 0) or "fail" (it wrote nothing, return
\* code not 0).  made: the files this call created
sextractor_try_decompress(autodecompress, files, fn, dec) ==
    LET ext == DecompressExt(fn) IN
    IF ~autodecompress \/ ext = None
    THEN [exc |-> "None", fn |-> None, fs |-> files, made |-> {}]
    ELSE LET tfn == TempFilePrefix \o basename(SubSeq(fn, 1, Len(fn) - Len(ext)))
             files1 == IF isfile(files, tfn) THEN remove(files, tfn) ELSE files
         IN  IF dec = "fail"
             THEN [exc |-> "OSError", fn |-> None, fs |-> files1, made |-> {}]
             ELSE [exc |-> "None", fn |-> tfn,
                   fs |-> WriteFile(files1, tfn, Decompressed), made |-> {tfn}]

\* Swarp._try_decompress(fn) with autodecompress True (next to the input)
\* or False
swarp_try_decompress(autodecompress, files, fn, dec) ==
    LET ext == DecompressExt(fn) IN
    IF ~autodecompress \/ ext = None
    THEN [exc |-> "None", fn |-> None, fs |-> files, made |-> {}]
    ELSE LET decompfn == pathjoin(dirname(fn),
                                  basename(SubSeq(fn, 1, Len(fn) - Len(ext))))
         IN  IF isfile(files, decompfn)       \* assume it has already been decompressed
             THEN [exc |-> "None", fn |-> decompfn, fs |-> files, made |-> {}]
             ELSE IF dec = "fail"
             THEN [exc |-> "OSError", fn |-> None, fs |-> files, made |-> {}]
             ELSE [exc |-> "None", fn |-> decompfn,
                   fs |-> WriteFile(files, decompfn, Decompressed), made |-> {decompfn}]

\* [self._try_decompress(imfn) for imfn in imgfns]: the list so far in fns,
\* from image i on
RECURSIVE swarp_decompress_all(_, _, _, _, _, _)
swarp_decompress_all(autodecompress, st, imgfns, decs, i, fns) ==
    IF i > Len(imgfns) \/ st.exc # "None" THEN [st EXCEPT !.fns = fns]
    ELSE LET d == swarp_try_decompress(autodecompress, st.fs, imgfns[i], decs[i])
         IN  swarp_decompress_all(autodecompress,
                                  [exc |-> d.exc, fs |-> d.fs, made |-> st.made \cup d.made,
                                   fns |-> fns],
                                  imgfns, decs, i + 1, Append(fns, d.fn))

\* os.remove of each file of the list that is a file
RECURSIVE RemoveFiles(_, _)
RemoveFiles(files, fns) ==
    IF fns = <<>> THEN files
    ELSE RemoveFiles(IF Head(fns) # None /\ isfile(files, Head(fns))
                     THEN remove(files, Head(fns)) ELSE files,
                     Tail(fns))

----------------------------------------------------------------------------
(* The operations of the drivers, each from its first line to its return
   or raise.  t is the driver object; copies (a ghost) is the set of
   decompressed files the operation created *)

\* Sextractor.sextract_single(imgfn), renameoutputs being None
sextract_single(t, items, settings, px, files, imgfn, dec, env) ==
    LET Finally(d, r) ==
            [exc |-> r.exc, px |-> r.px, infiles |-> r.infiles,
             fs |-> RemoveFiles(r.fs, <<d.fn>>),
             tool |-> [t EXCEPT !.copies = d.made,
                                !.lastinvocation = IF r.lastinvocation # None
                                                   THEN r.lastinvocation ELSE @,
                                !.lastimgfn = IF r.exc = "None" THEN imgfn ELSE @]]
        Try(d) ==
            IF d.exc # "None"        \* raised before the try statement is entered
            THEN [exc |-> d.exc, px |-> px, infiles |-> <<>>, fs |-> d.fs,
                  tool |-> [t EXCEPT !.copies = d.made]]
            ELSE Finally(d, sextractor_invoke_tool(t.outputs, items, settings, px, d.fs,
                                                   <<IF d.fn = None THEN imgfn ELSE d.fn>>,
                                                   <<"True">>, TRUE, env))
    IN  Try(sextractor_try_decompress(t.autodecompress, files, imgfn, dec))

\* Sextractor.sextract_double(masterimgfn, analysisimgfn)
sextract_double(t, items, settings, px, files, masterimgfn, analysisimgfn, mdec, adec, env) ==
    LET Finally(md, ad, r) ==
            [exc |-> r.exc, px |-> r.px, infiles |-> r.infiles,
             fs |-> RemoveFiles(r.fs, <<ad.fn, md.fn>>),
             tool |-> [t EXCEPT !.copies = md.made \cup ad.made,
                                !.lastinvocation = IF r.lastinvocation # None
                                                   THEN r.lastinvocation ELSE @,
                                !.lastimgfn = IF r.exc = "None" THEN analysisimgfn ELSE @,
                                !.lastmasterimgfn = IF r.exc = "None"
                                                    THEN masterimgfn ELSE @]]
        Try(md, ad) ==
            IF ad.exc # "None"       \* raised before the try statement is entered
            THEN [exc |-> ad.exc, px |-> px, infiles |-> <<>>, fs |-> ad.fs,
                  tool |-> [t EXCEPT !.copies = md.made]]
            ELSE Finally(md, ad,
                         sextractor_invoke_tool(t.outputs, items, settings, px, ad.fs,
                             <<IF md.fn = None THEN masterimgfn ELSE md.fn,
                               IF ad.fn = None THEN analysisimgfn ELSE ad.fn>>,
                             <<"True">>, TRUE, env))
        Analysis(md) ==
            IF md.exc # "None"
            THEN [exc |-> md.exc, px |-> px, infiles |-> <<>>, fs |-> md.fs,
                  tool |-> [t EXCEPT !.copies = md.made]]
            ELSE Try(md, sextractor_try_decompress(t.autodecompress, md.fs,
                                                   analysisimgfn, adec))
    IN  Analysis(sextractor_try_decompress(t.autodecompress, files, masterimgfn, mdec))

\* None where a list of file names is expected
NoList == <<None>>

\* a symbolic link and its target
Link(target) == <<"->">> \o target
islink(files, name) == name \in DOMAIN files /\ files[name] # <<>> /\ files[name][1] = "->"

\* Swarp._determine_links(imgfns, headfns, weightfns), both lists given
determine_links(settings, imgfns, headfns, weightfns) ==
    LET LinksOf(i) ==
            LET baseimgfn == BeforeFirst(imgfns[i], DotFits)
            IN  << <<headfns[i], baseimgfn \o settings[HEADER_SUFFIX].v>>,
                   <<weightfns[i], baseimgfn \o settings[WEIGHT_SUFFIX].v>> >>
        RECURSIVE From(_)
        From(i) == IF i > Len(imgfns) THEN <<>> ELSE LinksOf(i) \o From(i + 1)
    IN  From(1)

\* os.symlink(target, linkname) for each link whose name does not exist
RECURSIVE MakeLinks(_, _)
MakeLinks(files, links) ==
    IF links = <<>> THEN files
    ELSE MakeLinks(IF isfile(files, Head(links)[2]) THEN files
                   ELSE WriteFile(files, Head(links)[2], Link(Head(links)[1])),
                   Tail(links))

\* os.remove(linkname) for each link name that is a link
RECURSIVE RemoveLinks(_, _)
RemoveLinks(files, links) ==
    IF links = <<>> THEN files
    ELSE RemoveLinks(IF islink(files, Head(links)[2]) THEN remove(files, Head(links)[2])
                     ELSE files,
                     Tail(links))

\* '{0}'.format(1/hdr['EXPTIME']) for the exposure time of the images
FScale == <<"0", ".", "5">>

\* Swarp.swarp_images(imgfns, headfns, weightfns) for a list imgfns, with
\* overwrite True.  hdr tells whether the images' headers have EXPTIME;
\* argv (a ghost) is the argument list of this call's child process
swarp_images(t, items, settings, px, dict, files, imgfns, headfns, weightfns, decs, hdr, env) ==
    LET raise(exc, files1, made) ==
            [exc |-> exc, px |-> px, settings |-> settings, dict |-> dict, fs |-> files1,
             argv |-> None, tool |-> [t EXCEPT !.copies = made]]
        \* finally: the two items get their old values back, then the
        \* decompressed files and the links are removed
        Restored(da, links, r, s) ==
            [exc |-> r.exc, px |-> s.px, settings |-> s.settings, dict |-> s.dict,
             fs |-> IF t.keeptemps THEN r.fs
                    ELSE RemoveLinks(RemoveFiles(r.fs, da.fns), links),
             argv |-> r.lastinvocation,
             tool |-> [t EXCEPT !.copies = da.made,
                                !.lastinvocation = IF r.lastinvocation # None
                                                   THEN r.lastinvocation ELSE @]]
        RestoreFScale(da, links, r, s) ==
            Restored(da, links, r,
                     setattr(items, s.settings, s.px, s.dict, FSCALE_DEFAULT,
                             settings[FSCALE_DEFAULT]))
        Finally(da, links, r, cur) ==
            RestoreFScale(da, links, r,
                          setattr(items, cur.settings, r.px, cur.dict, WEIGHT_IMAGE,
                                  settings[WEIGHT_IMAGE]))
        Run(da, links, cur) ==
            Finally(da, links,
                    invoke_tool(items, cur.settings, cur.px, MakeLinks(da.fs, links),
                                [i \in 1..Len(imgfns) |->
                                    IF da.fns[i] = None THEN imgfns[i] ELSE da.fns[i]],
                                <<"True">>, TRUE, env),
                    cur)
        \* self.cfg.WEIGHT_IMAGE = '' is done
        Try(da, links, w) ==
            IF ~t.fluxscalebytexp THEN Run(da, links, w)
            ELSE IF hdr = "noexptime"                          \* hdr['EXPTIME']
            THEN Finally(da, links,
                         [exc |-> "KeyError", px |-> w.px, fs |-> da.fs,
                          lastinvocation |-> None],
                         w)
            ELSE Run(da, links,
                     setattr(items, w.settings, w.px, w.dict, FSCALE_DEFAULT,
                             Lit(Join(<<",">>, [i \in 1..Len(imgfns) |-> FScale]))))
        Links(da) ==
            IF da.exc # "None" THEN raise(da.exc, da.fs, da.made)
            ELSE IF headfns = NoList \/ weightfns = NoList   \* zip(imgfns, headfns, weightfns)
            THEN raise("TypeError", da.fs, da.made)
            ELSE Try(da, determine_links(settings, imgfns, headfns, weightfns),
                     setattr(items, settings, px, dict, WEIGHT_IMAGE, Lit(<<>>)))
    IN
    IF headfns # NoList /\ Len(headfns) # Len(imgfns) THEN raise("ValueError", files, {})
    ELSE IF weightfns # NoList /\ Len(weightfns) # Len(imgfns)
    THEN raise("ValueError", files, {})
    ELSE IF weightfns # NoList /\ settings[WEIGHT_TYPE] = Lit(NONE)
    THEN raise("ValueError", files, {})
    ELSE Links(swarp_decompress_all(t.autodecompress,
                                    [exc |-> "None", fs |-> files, made |-> {}, fns |-> <<>>],
                                    imgfns, decs, 1, <<>>))

\* Scamp._CP_DEV_TO_EXT[dev] for the devices of the model, "KeyError" for a
\* device that is no key
CP_DEV_TO_EXT(dev) ==
    IF dev \in {PSC, <<"P", "S">>} THEN <<".", "p", "s">>
    ELSE IF dev = PNG THEN <<".", "p", "n", "g">>
    ELSE IF dev = XWIN THEN None
    ELSE "KeyError"

\* Scamp._check_output_exists(catfns): the .head files that exist
RECURSIVE check_output_exists(_, _)
check_output_exists(files, catfns) ==
    IF catfns = <<>> THEN <<>>
    ELSE LET splfn == Split(Head(catfns), ".")
             headfn == Join(<<".">>, SubSeq(splfn, 1, Len(splfn) - 1))
                           \o <<".", "h", "e", "a", "d">>
         IN  (IF isfile(files, headfn) THEN <<headfn>> ELSE <<>>)
                 \o check_output_exists(files, Tail(catfns))

\* a run of scamp that leaves CHECKPLOT_DEV as the run had it
scamp_catalogs_NoRestore(t, items, settings, px, dict, files, catfns, env) ==
    LET Restored(r, s) ==
            [exc |-> r.exc, px |-> s.px, settings |-> s.settings, dict |-> s.dict,
             fs |-> r.fs, argv |-> r.lastinvocation,
             result |-> IF r.exc = "None" THEN check_output_exists(r.fs, catfns) ELSE <<>>,
             tool |-> [t EXCEPT !.lastinvocation = IF r.lastinvocation # None
                                                   THEN r.lastinvocation ELSE @,
                                !.lastcats = IF r.exc = "None" THEN catfns ELSE @]]
        Finally(r, cur) ==
            Restored(r, [cur EXCEPT !.px = r.px])
        Run(cur) ==
            Finally(invoke_tool(items, cur.settings, cur.px, files, catfns,
                                <<"True">>, TRUE, env),
                    cur)
        asis == [exc |-> "None", settings |-> settings, px |-> px, dict |-> dict]
        Try(ext) ==
            IF ~t.pstopdf THEN Run(asis)
            ELSE IF ext = "KeyError"
            THEN Finally([exc |-> "KeyError", px |-> px, fs |-> files,
                          lastinvocation |-> None], asis)
            ELSE IF ext # <<".", "p", "s">>
            THEN Run(setattr(items, settings, px, dict, CHECKPLOT_DEV, Lit(PSC)))
            ELSE Run(asis)
    IN  Try(CP_DEV_TO_EXT(settings[CHECKPLOT_DEV].v))

\* Scamp.scamp_catalogs(catfns) for a list catfns, with overwrite True and
\* renameoutputs None.  argv (a ghost) is the argument list of this call's
\* child process
scamp_catalogs(t, items, settings, px, dict, files, catfns, env) ==
    LET \* finally: self.cfg.CHECKPLOT_DEV = initialcpdev
        Restored(r, s) ==
            [exc |-> r.exc, px |-> s.px, settings |-> s.settings, dict |-> s.dict,
             fs |-> r.fs, argv |-> r.lastinvocation,
             result |-> IF r.exc = "None" THEN check_output_exists(r.fs, catfns) ELSE <<>>,
             tool |-> [t EXCEPT !.lastinvocation = IF r.lastinvocation # None
                                                   THEN r.lastinvocation ELSE @,
                                !.lastcats = IF r.exc = "None" THEN catfns ELSE @]]
        Finally(r, cur) ==
            Restored(r, setattr(items, cur.settings, r.px, cur.dict, CHECKPLOT_DEV,
                                settings[CHECKPLOT_DEV]))
        Run(cur) ==
            Finally(invoke_tool(items, cur.settings, cur.px, files, catfns,
                                <<"True">>, TRUE, env),
                    cur)
        asis == [exc |-> "None", settings |-> settings, px |-> px, dict |-> dict]
        Try(ext) ==
            IF ~t.pstopdf THEN Run(asis)
            ELSE IF ext = "KeyError"
            THEN Finally([exc |-> "KeyError", px |-> px, fs |-> files,
                          lastinvocation |-> None], asis)
            ELSE IF ext # <<".", "p", "s">>
            THEN Run(setattr(items, settings, px, dict, CHECKPLOT_DEV, Lit(PSC)))
            ELSE Run(asis)
    IN  Try(CP_DEV_TO_EXT(settings[CHECKPLOT_DEV].v))

\* s.upper()
upper(s) ==
    [i \in 1..Len(s) |->
        IF \E k \in 1..26 : LowerCase[k] = s[i]
        THEN UpperCase[CHOOSE k \in 1..26 : LowerCase[k] = s[i]]
        ELSE s[i]]

\* the loop of load_cfg_from_xml over cfgparams, from parameter i on
RECURSIVE ApplyParams(_, _, _, _)
ApplyParams(items, st, cfgparams, i) ==
    IF i > Len(cfgparams) \/ st.exc # "None" THEN st
    ELSE LET p == cfgparams[i]
             cfgnm == upper(p.name)
             looksTemp == /\ p.ucd = "meta.file"
                          /\ Len(p.value) >= Len(TempFilePrefix)
                          /\ SubSeq(p.value, 1, Len(TempFilePrefix)) = TempFilePrefix
             Set(value) ==
                 LET r == setitem(items, st.settings, st.px, cfgnm, Lit(value))
                 IN  ApplyParams(items, [exc |-> r.exc, settings |-> r.settings, px |-> r.px],
                                 cfgparams, i + 1)
         IN  IF looksTemp /\ getitem(st.settings, cfgnm).exc # "None"   \* self.cfg[cfgnm]
             THEN [st EXCEPT !.exc = "KeyError"]
             ELSE IF looksTemp /\ st.settings[cfgnm].kind = "proxy"
             THEN ApplyParams(items, st, cfgparams, i + 1)               \* continue
             ELSE IF p.datatype = "boolean"
             THEN IF p.value = <<"T">> THEN Set(<<"Y">>)
                  ELSE IF p.value = <<"F">> THEN Set(<<"N">>)
                  ELSE [st EXCEPT !.exc = "ValueError"]
             ELSE Set(p.value)

\* the image load_cfg_from_xml finds for Image_Name: the file itself, a
\* compressed version of it in the current directory, or None
FindInput(files, inputfn) ==
    LET truebaseinputfn == Replace(inputfn, TempFilePrefix, <<>>)
    IN  IF isfile(files, inputfn) THEN inputfn
        ELSE IF isfile(files, truebaseinputfn \o ExtFz)
        THEN <<".", "/">> \o truebaseinputfn \o ExtFz
        ELSE IF isfile(files, truebaseinputfn \o ExtGz)
        THEN <<".", "/">> \o truebaseinputfn \o ExtGz
        ELSE None

\* a load that keeps what it has applied when it raises
load_cfg_from_xml_NoRevert(t, items, settings, px, files, xml, onlyimg) ==
    LET Loaded(st, a) ==
            [exc |-> IF st.exc # "None" THEN st.exc ELSE a.exc,
             settings |-> st.settings, px |-> st.px,
             tool |-> [t EXCEPT !.outputs = IF st.exc # "None" THEN @ ELSE a.outputs,
                                !.lastimgfn = IF st.exc = "None" /\ a.exc = "None"
                                              THEN FindInput(files, xml.inputfn) ELSE @]]
    IN  IF onlyimg
        THEN [exc |-> "None", settings |-> settings, px |-> px,
              tool |-> [t EXCEPT !.lastimgfn = FindInput(files, xml.inputfn)]]
        ELSE Loaded(ApplyParams(items, [exc |-> "None", settings |-> settings, px |-> px],
                                xml.cfgparams, 1),
                    add_outputs(<<>>, xml.outputs, 1))

\* Sextractor.load_cfg_from_xml(xmlfile, onlyimg) for a file that parses;
\* xml is what the file says: the value of Image_Name, the parameters of the
\* Config resource and the names of the fields of Source_List
load_cfg_from_xml(t, items, settings, px, files, xml, onlyimg) ==
    LET \* the except clause puts the old settings and outputs back
        Loaded(st, a) ==
            IF st.exc # "None" \/ a.exc # "None"
            THEN [exc |-> IF st.exc # "None" THEN st.exc ELSE a.exc,
                  settings |-> settings, px |-> st.px, tool |-> t]
            ELSE [exc |-> "None", settings |-> st.settings, px |-> st.px,
                  tool |-> [t EXCEPT !.outputs = a.outputs,
                                     !.lastimgfn = FindInput(files, xml.inputfn)]]
    IN  IF onlyimg
        THEN [exc |-> "None", settings |-> settings, px |-> px,
              tool |-> [t EXCEPT !.lastimgfn = FindInput(files, xml.inputfn)]]
        ELSE Loaded(ApplyParams(items, [exc |-> "None", settings |-> settings, px |-> px],
                                xml.cfgparams, 1),
                    add_outputs(<<>>, xml.outputs, 1))

----------------------------------------------------------------------------
(* The drivers as a caller uses them: construction, then any operations *)

MaxDrvOps == 2        \* how many operations follow the construction

\* files of an earlier session: a.fits.fz decompressed next to it, and a
\* link with the name of the header link of a.fits.fz
OldDecompressed == <<"a", ".", "f", "i", "t", "s">>
OldLink == <<"a", ".", "h">>
CatFile == <<"c", "a", "t">>     \* the value of CATALOG_NAME in SexDump
DrvEnvs == {NoFault, [NoFault EXCEPT !.retcode = 1], [NoFault EXCEPT !.failAt = 1],
            [NoFault EXCEPT !.failAt = 2], [NoFault EXCEPT !.popenfails = TRUE],
            [NoFault EXCEPT !.rmfail = 1]}

\* there is an unused temporary name for each proxy of the store
EnoughTempNames ==
    LET pr == get_proxies(config_items, config_settings)
    IN  Cardinality(FreeTempNames(fs)) >= Len(pr.ins) + Len(pr.outs)
ImgInputs == {ImgA, ImgB, ImgC}
DecInputs == {"ok", "fail"}
ImgListInputs == {<<ImgA>>, <<ImgC>>, <<ImgA, ImgB>>}
HeadInputs == {NoList, <<HeadA>>}
WeightInputs == {NoList, <<WeightA>>}
FilterInputs == {DefaultFilter, BlockFilter, NoSuchFilter}
OutTypeInputs == {None, ASCII_VOTABLE, FITS_LDAC, <<"X">>}
OutputInputs == { <<ScampOutputs[3]>>, <<DefaultOutputs[1], <<"B", "O", "G", "U", "S">>>>,
                  <<ScampOutputs[1], <<"B", "O", "G", "U", "S">>, ScampOutputs[2]>> }
\* a PARAM element of the Config resource of an XML file
Param(name, value, datatype, ucd) ==
    [name |-> name, value |-> value, datatype |-> datatype, ucd |-> ucd]
ParamCatalogType ==
    Param(<<"C", "a", "t", "a", "l", "o", "g", "_", "T", "y", "p", "e">>, FITS_LDAC,
          "char", "meta.code")
ParamParametersName ==
    Param(<<"P", "a", "r", "a", "m", "e", "t", "e", "r", "s", "_", "N", "a", "m", "e">>,
          TempFilePrefix \o <<"X">>, "char", "meta.file")
\* the XML files a caller loads: one that applies, one with an item the
\* store has not, one with an invalid boolean, one with an invalid column
XmlInputs ==
    { [inputfn |-> ImgC, cfgparams |-> <<ParamCatalogType, ParamParametersName>>,
       outputs |-> <<DefaultOutputs[1], ScampOutputs[3]>>],
      [inputfn |-> TempFilePrefix \o <<"a", ".", "f", "i", "t", "s">>,
       cfgparams |-> <<ParamCatalogType,
                       Param(<<"Z", "z">>, <<"1">>, "int", "meta.number")>>,
       outputs |-> <<DefaultOutputs[1]>>],
      [inputfn |-> ImgC,
       cfgparams |-> <<ParamCatalogType,
                       Param(<<"F", "i", "l", "t", "e", "r", "_", "N", "a", "m", "e">>,
                             <<"Q">>, "boolean", "meta.code")>>,
       outputs |-> <<DefaultOutputs[1]>>],
      [inputfn |-> ImgC, cfgparams |-> <<ParamCatalogType>>,
       outputs |-> <<ScampOutputs[3], <<"B", "O", "G", "U", "S">>>>] }
DrvAssignments == {<<CATALOG_TYPE, Lit(NONE)>>, <<WEIGHT_TYPE, Lit(MAP_WEIGHT)>>,
                   <<CHECKPLOT_DEV, Lit(PSC)>>, <<CHECKPLOT_DEV, Lit(<<"X">>)>>}

\* the files on disk before a driver is constructed
InitFiles(withcat, withold) ==
    LET imgs == [n \in {ImgA, ImgB, ImgC, ImgD, HeadA, WeightA} |-> <<"z">>]
        cat == IF withcat THEN (CatFile :> ChildOutput) @@ imgs ELSE imgs
    IN  IF withold THEN (OldDecompressed :> <<"v">>) @@ (OldLink :> Link(HeadA)) @@ cat
        ELSE cat

\* no driver and no store exist yet
InitDrv ==
    /\ initial_cfgstr = None
    /\ config_items = <<>>
    /\ config_settings = <<>>
    /\ config_comments = <<>>
    /\ inst_dict = <<>>
    /\ proxies = InitProxies
    /\ \E withcat, withold \in BOOLEAN : fs = InitFiles(withcat, withold)
    /\ pc = "new"
    /\ call = NoCall
    /\ lastop = NoOp
    /\ created = {}
    /\ materialized = {}
    /\ released = [p \in ProxyIds |-> 0]
    /\ spawned = 0
    /\ nops = 0
    /\ tool = NoTool
    /\ callers = [c \in Callers |-> NoCaller]

ghostVars == <<call, created, materialized, released, spawned>>

\* Sextractor(execpath, autodecompress), Swarp(execpath, autodecompress,
\* keeptemps, fluxscalebytexp) or Scamp(execpath): AstromaticTool.__init__
\* and the rest of the subclass's __init__.  given: the caller passes execpath; found: `which` finds the
\* tool; env: how the runs of the tool go
NewTool(cls, given, found, autodecompress, keeptemps, fluxscalebytexp, env) ==
    /\ pc = "new"
    /\ cls # "Swarp" => (~keeptemps /\ ~fluxscalebytexp)
    /\ cls = "Scamp" => ~autodecompress
    /\ given => found
    /\ LET cfgstr == IF cls = "Sextractor" THEN SexDump
                     ELSE IF cls = "Swarp" THEN SwarpDump ELSE ScampDump
           Raised(w, exc, files) ==
               /\ pc' = "failed"
               /\ lastop' = [NoOp EXCEPT !.op = "init", !.exc = exc]
               /\ tool' = [NoTool EXCEPT !.warnings = w.warnings]
               /\ fs' = files
               /\ UNCHANGED <<storeVars, proxies>>
           Made(w, st, settings, px, dict, files, lastinvocation) ==
               /\ pc' = "idle"
               /\ lastop' = [NoOp EXCEPT !.op = "init"]
               /\ initial_cfgstr' = cfgstr
               /\ config_items' = st.items
               /\ config_comments' = st.comments
               /\ config_settings' = settings
               /\ proxies' = px
               /\ inst_dict' = dict
               /\ fs' = files
               /\ tool' = [NoTool EXCEPT !.cls = cls, !.execpath = w.path,
                                         !.warnings = w.warnings,
                                         !.autodecompress = autodecompress,
                                         !.keeptemps = keeptemps,
                                         !.fluxscalebytexp = fluxscalebytexp,
                                         !.outputs = IF cls = "Sextractor"
                                                     THEN reset_outputs ELSE @,
                                         !.lastinvocation = lastinvocation]
           \* self.cfg.PARAMETERS_NAME = ProxyInputFile('PLACEHOLDER: ...')
           Populated(w, st, dp, pn) ==
               Made(w, st, pn.settings, pn.px, pn.dict, dp.fs, dp.lastinvocation)
           \* self.choose_conv_filter('default') is done
           Filtered(w, st, dp, cf) ==
               Populated(w, st, dp,
                         setattr(st.items, cf.settings,
                                 [cf.px EXCEPT ![ParametersProxy] =
                                                   ProxyInputFile(PARAMETERS_PLACEHOLDER)],
                                 cf.dict, PARAMETERS_NAME, Px(ParametersProxy)))
           \* self._parse_outputs(self._invoke_tool(['-dp'])[0]) is done
           Outputs(w, st, dp) ==
               IF dp.exc # "None" THEN Raised(w, dp.exc, dp.fs)
               ELSE Filtered(w, st, dp,
                             choose_conv_filter(st.items, st.settings, dp.px, <<>>,
                                                DefaultFilter))
           \* self.cfg = AstromaticConfiguration(initialconfig) is done
           Configured(w, dd, st) ==
               IF cls # "Sextractor"
               THEN Made(w, st, st.settings, dd.px, <<>>, dd.fs, dd.lastinvocation)
               ELSE Outputs(w, st,
                            sextractor_invoke_tool(<<>>, st.items, st.settings, dd.px, dd.fs,
                                                   <<DashDP>>, <<"True">>, FALSE, env))
           \* self._invoke_tool(['-dd'], useconfig=False) is done
           Dumped(w, dd) ==
               IF dd.exc # "None" THEN Raised(w, dd.exc, dd.fs)
               ELSE Configured(w, dd, parse_config_file(cfgstr))
           Located(w) ==
               IF w.path = None
               THEN Raised(w, "AttributeError", fs)       \* os.path.abspath(None)
               ELSE Dumped(w, invoke_tool(<<>>, <<>>, proxies, fs, <<DashDD>>,
                                          <<"False">>, FALSE, env))
       IN  Located(IF given THEN [path |-> EXECPATH, warnings |-> 0]
                   ELSE which_path(found))
    /\ UNCHANGED ghostVars

\* sex.choose_conv_filter(fname)
ChooseConvFilter(fname) ==
    /\ pc = "idle" /\ tool.cls = "Sextractor"
    /\ LET Done(r) ==
               /\ config_settings' = r.settings
               /\ proxies' = r.px
               /\ inst_dict' = r.dict
               /\ lastop' = [NoOp EXCEPT !.op = "choose_conv_filter", !.exc = r.exc,
                                         !.out = <<fname>>]
       IN  Done(choose_conv_filter(config_items, config_settings, proxies, inst_dict,
                                   fname))
    /\ UNCHANGED <<initial_cfgstr, config_items, config_comments, fs, pc, tool, ghostVars>>

\* sex.use_proxy_catalog(outtype)
UseProxyCatalog(outtype) ==
    /\ pc = "idle" /\ tool.cls = "Sextractor"
    /\ LET Done(r) ==
               /\ config_settings' = r.settings
               /\ proxies' = r.px
               /\ inst_dict' = r.dict
               /\ lastop' = [NoOp EXCEPT !.op = "use_proxy_catalog", !.exc = r.exc]
       IN  Done(use_proxy_catalog(config_items, config_settings, config_comments,
                                  proxies, inst_dict, outtype))
    /\ UNCHANGED <<initial_cfgstr, config_items, config_comments, fs, pc, tool, ghostVars>>

\* sex.get_output(astable)
GetOutput(astable) ==
    /\ pc = "idle" /\ tool.cls = "Sextractor"
    /\ LET Done(r) ==
               lastop' = [NoOp EXCEPT !.op = "get_output", !.exc = r.exc,
                                      !.result = r.result,
                                      !.out = IF astable THEN <<"astable">> ELSE <<>>]
       IN  Done(get_output(config_settings, proxies, fs, astable))
    /\ UNCHANGED <<storeVars, proxies, fs, pc, tool, ghostVars>>

\* sex.reset_outputs()
ResetOutputs ==
    /\ pc = "idle" /\ tool.cls = "Sextractor"
    /\ tool' = [tool EXCEPT !.outputs = reset_outputs]
    /\ lastop' = [NoOp EXCEPT !.op = "reset_outputs"]
    /\ UNCHANGED <<storeVars, proxies, fs, pc, ghostVars>>

\* sex.add_outputs(vals)
AddOutputs(vals) ==
    /\ pc = "idle" /\ tool.cls = "Sextractor"
    /\ LET Done(r) ==
               /\ tool' = [tool EXCEPT !.outputs = r.outputs]
               /\ lastop' = [NoOp EXCEPT !.op = "add_outputs", !.exc = r.exc, !.out = vals]
       IN  Done(add_outputs(tool.outputs, vals, 1))
    /\ UNCHANGED <<storeVars, proxies, fs, pc, ghostVars>>

\* sex.set_outputs_from_scamp(None, reset)
SetOutputsFromScamp(reset) ==
    /\ pc = "idle" /\ tool.cls = "Sextractor"
    /\ LET Assigned(a, r) ==
               /\ config_settings' = IF a.exc = "None" THEN r.settings ELSE config_settings
               /\ proxies' = IF a.exc = "None" THEN r.px ELSE proxies
               /\ inst_dict' = IF a.exc = "None" THEN r.dict ELSE inst_dict
               /\ tool' = [tool EXCEPT !.outputs = a.outputs]
               /\ lastop' = [NoOp EXCEPT !.op = "set_outputs_from_scamp",
                                         !.exc = IF a.exc # "None" THEN a.exc ELSE r.exc]
       IN  Assigned(set_outputs_from_scamp(tool.outputs, reset),
                    setattr(config_items, config_settings, proxies, inst_dict,
                            CATALOG_TYPE, Lit(FITS_LDAC)))
    /\ UNCHANGED <<initial_cfgstr, config_items, config_comments, fs, pc, ghostVars>>

\* sex.load_cfg_from_xml(xmlfile, onlyimg)
LoadCfgFromXml(xml, onlyimg) ==
    /\ pc = "idle" /\ tool.cls = "Sextractor"
    /\ LET Done(r) ==
               /\ config_settings' = r.settings
               /\ proxies' = r.px
               /\ tool' = r.tool
               /\ lastop' = [NoOp EXCEPT !.op = "load_cfg_from_xml", !.exc = r.exc,
                                         !.out = <<xml.inputfn>>,
                                         !.result = [kind |-> "xml", v |-> xml.outputs]]
       IN  Done(load_cfg_from_xml(tool, config_items, config_settings, proxies, fs,
                                  xml, onlyimg))
    /\ UNCHANGED <<initial_cfgstr, config_items, config_comments, inst_dict, fs, pc, ghostVars>>

\* sex.sextract_single(imgfn)
SextractSingle(imgfn, dec, env) ==
    /\ pc = "idle" /\ tool.cls = "Sextractor"
    /\ EnoughTempNames
    /\ LET Done(r) ==
               /\ proxies' = r.px
               /\ fs' = r.fs
               /\ tool' = r.tool
               /\ lastop' = [NoOp EXCEPT !.op = "sextract_single", !.exc = r.exc,
                                         !.out = <<imgfn>>,
                                         !.result = [kind |-> "infiles", v |-> r.infiles]]
       IN  Done(sextract_single(tool, config_items, config_settings, proxies, fs,
                                imgfn, dec, env))
    /\ UNCHANGED <<storeVars, pc, ghostVars>>

\* sex.sextract_double(masterimgfn, analysisimgfn)
SextractDouble(masterimgfn, analysisimgfn, mdec, adec, env) ==
    /\ pc = "idle" /\ tool.cls = "Sextractor"
    /\ EnoughTempNames
    /\ LET Done(r) ==
               /\ proxies' = r.px
               /\ fs' = r.fs
               /\ tool' = r.tool
               /\ lastop' = [NoOp EXCEPT !.op = "sextract_double", !.exc = r.exc,
                                         !.out = <<masterimgfn, analysisimgfn>>,
                                         !.result = [kind |-> "infiles", v |-> r.infiles]]
       IN  Done(sextract_double(tool, config_items, config_settings, proxies, fs,
                                masterimgfn, analysisimgfn, mdec, adec, env))
    /\ UNCHANGED <<storeVars, pc, ghostVars>>

\* swarp.swarp_images(imgfns, headfns, weightfns)
SwarpImages(imgfns, headfns, weightfns, decs, hdr, env) ==
    /\ pc = "idle" /\ tool.cls = "Swarp"
    /\ EnoughTempNames
    /\ ~tool.fluxscalebytexp => hdr = "exptime"
    /\ LET Done(r) ==
               /\ config_settings' = r.settings
               /\ inst_dict' = r.dict
               /\ proxies' = r.px
               /\ fs' = r.fs
               /\ tool' = r.tool
               /\ lastop' = [NoOp EXCEPT !.op = "swarp_images", !.exc = r.exc,
                                         !.out = imgfns,
                                         !.result = [kind |-> "lists",
                                                     v |-> <<headfns, weightfns, r.argv>>]]
       IN  Done(swarp_images(tool, config_items, config_settings, proxies, inst_dict, fs,
                             imgfns, headfns, weightfns, decs, hdr, env))
    /\ UNCHANGED <<initial_cfgstr, config_items, config_comments, pc, ghostVars>>

\* scamp.scamp_catalogs(catfns)
ScampCatalogs(catfns, env) ==
    /\ pc = "idle" /\ tool.cls = "Scamp"
    /\ EnoughTempNames
    /\ LET Done(r) ==
               /\ config_settings' = r.settings
               /\ inst_dict' = r.dict
               /\ proxies' = r.px
               /\ fs' = r.fs
               /\ tool' = r.tool
               /\ lastop' = [NoOp EXCEPT !.op = "scamp_catalogs", !.exc = r.exc,
                                         !.out = catfns,
                                         !.result = [kind |-> "lists",
                                                     v |-> <<r.result, r.argv>>]]
       IN  Done(scamp_catalogs(tool, config_items, config_settings, proxies, inst_dict, fs,
                               catfns, env))
    /\ UNCHANGED <<initial_cfgstr, config_items, config_comments, pc, ghostVars>>

NextDrv ==
    \/ /\ UNCHANGED <<nops, callers>>
       /\ \E cls \in {"Sextractor", "Swarp", "Scamp"}, given, found, autodecompress,
             keeptemps, fluxscalebytexp \in BOOLEAN, env \in DrvEnvs :
             NewTool(cls, given, found, autodecompress, keeptemps, fluxscalebytexp, env)
    \/ /\ nops < MaxDrvOps
       /\ nops' = nops + 1
       /\ UNCHANGED callers
       /\ \/ \E a \in DrvAssignments : SetItem(a[1], a[2]) /\ UNCHANGED tool
          \/ \E fname \in FilterInputs : ChooseConvFilter(fname)
          \/ \E outtype \in OutTypeInputs : UseProxyCatalog(outtype)
          \/ \E astable \in BOOLEAN : GetOutput(astable)
          \/ ResetOutputs
          \/ \E vals \in OutputInputs : AddOutputs(vals)
          \/ \E reset \in BOOLEAN : SetOutputsFromScamp(reset)
          \/ \E xml \in XmlInputs, onlyimg \in BOOLEAN : LoadCfgFromXml(xml, onlyimg)
          \/ \E imgfn \in ImgInputs, dec \in DecInputs, env \in DrvEnvs :
                SextractSingle(imgfn, dec, env)
          \/ \E masterimgfn, analysisimgfn \in ImgInputs, mdec, adec \in DecInputs,
                env \in DrvEnvs :
                SextractDouble(masterimgfn, analysisimgfn, mdec, adec, env)
          \/ \E imgfns \in ImgListInputs, headfns \in HeadInputs,
                weightfns \in WeightInputs, decs \in [1..2 -> DecInputs],
                hdr \in {"exptime", "noexptime"}, env \in DrvEnvs :
                SwarpImages(imgfns, headfns, weightfns, decs, hdr, env)
          \/ \E env \in DrvEnvs : ScampCatalogs(<<CatFile>>, env)

SpecDrv == InitDrv /\ [][NextDrv]_vars

----------------------------------------------------------------------------
(* Properties of _invoke_tool, under Spec *)

BoundProxies ==
    LET pr == get_proxies(config_items, config_settings)
    IN  {pr.ins[i] : i \in 1..Len(pr.ins)} \cup {pr.outs[i] : i \in 1..Len(pr.outs)}

\* some proxy object is the value of two items
Aliased ==
    \E i, j \in 1..Len(config_items) :
        /\ config_items[i] # config_items[j]
        /\ config_settings[config_items[i]].kind = "proxy"
        /\ config_settings[config_items[i]] = config_settings[config_items[j]]

ExitedWith(valid) ==
    /\ call.retcode # -1
    /\ (call.retcode \in call.validretcodes) = valid

\* C1: when a call of _invoke_tool returns or raises, whatever its outcome,
\* none of the temporary files it created for its proxies exists any more.
C1_NoTempFileLeft == pc = "return" => created \cap DOMAIN fs = {}

OutputFilesExist ==
    \A i \in 1..Len(call.outproxies) :
        isfile(fs, proxies[call.outproxies[i]].tempfileobj)

\* every output proxy holds the contents of its temp file, which exists
OutputsReadBack ==
    \A i \in 1..Len(call.outproxies) :
        LET outp == proxies[call.outproxies[i]]
        IN  isfile(fs, outp.tempfileobj) /\ outp.content = fs[outp.tempfileobj]

\* C4 as stated: once the child has exited with a valid code and the call
\* reaches its finally block (no temp file deleted by the call yet), every
\* output proxy's content is the contents of its temp file as the child
\* left it.
C4_Original == (pc = "finally" /\ ExitedWith(TRUE)) => OutputsReadBack

\* C4 amended: ... provided every output proxy's temp file still exists
\* when the child has exited; if one is missing the call raises IOError.
C4_ReadBack ==
    (pc = "finally" /\ ExitedWith(TRUE)) =>
        IF OutputFilesExist
        THEN call.exc = "None" /\ OutputsReadBack
        ELSE call.exc = "IOError"

C4_Witness ==
    /\ pc = "finally"
    /\ ExitedWith(TRUE)
    /\ call.outproxies = << <<"out1">>, <<"out2">> >>
    /\ proxies[<<"out1">>].content = ChildOutput
    /\ proxies[<<"out2">>].content = <<>>
    /\ isfile(fs, proxies[<<"out2">>].tempfileobj)

CurrentCmdline == get_cmdline_arguments(config_items, config_settings, proxies).val
CurrentFileContents == get_file_contents(config_items, config_settings, proxies).val
DashC == <<"-", "c">>

\* C5 as stated: argv is the executable path, then `-c <path>` (the file
\* contents written to that path) if useconfig is a path and otherwise the
\* store's command line arguments, then the caller's arguments last.
C5_Original ==
    pc = "popen" =>
        IF call.useconfig = ConfigPath
        THEN /\ call.arguments = <<EXECPATH, DashC, ConfigPath>> \o call.extra_args
             /\ isfile(fs, ConfigPath) /\ fs[ConfigPath] = CurrentFileContents
        ELSE call.arguments = <<EXECPATH>> \o CurrentCmdline \o call.extra_args

\* C5 amended: with useconfig a path, argv is the executable path, `-c
\* <path>` and the caller's arguments, the file contents having been written
\* to the path; with useconfig True it is the executable path, the caller's
\* arguments and then the store's command line arguments; with useconfig
\* False it is the executable path and the caller's arguments only.
C5_Argv ==
    pc = "popen" =>
        IF call.useconfig = ConfigPath
        THEN /\ call.arguments = <<EXECPATH, DashC, ConfigPath>> \o call.extra_args
             /\ isfile(fs, ConfigPath) /\ fs[ConfigPath] = CurrentFileContents
        ELSE IF call.useconfig = <<"True">>
        THEN call.arguments = <<EXECPATH>> \o call.extra_args \o CurrentCmdline
        ELSE call.arguments = <<EXECPATH>> \o call.extra_args

C5_Witness ==
    /\ pc = "popen"
    /\ call.useconfig = <<"True">>
    /\ call.extra_args # <<>>
    /\ materialized # {}
    /\ call.arguments = <<EXECPATH>> \o call.extra_args \o CurrentCmdline

\* what item i of the store resolves to when nothing is raised
ResolvedValue(i) ==
    LET val == config_settings[config_items[i]] IN
    IF val.kind = "str" THEN val.v
    ELSE IF proxies[val.v].tempfileobj # None THEN proxies[val.v].tempfileobj
    ELSE IF val.v \in InputProxyIds THEN PROXY_INPUT_FILE_NOT_PRESENT
    ELSE PROXY_OUTPUT_FILE_NOT_PRESENT

\* item i holds a proxy that has no temp file
Ungenerated(i) ==
    LET val == config_settings[config_items[i]]
    IN  val.kind = "proxy" /\ proxies[val.v].tempfileobj = None

\* C8: get_normalized_items raises ValueError ("hasn't been generated")
\* when acceptungenerated is false and some item holds a proxy without a
\* temp file; otherwise it returns one (name, value) pair per item, in item
\* order, the value being the literal itself, the temp file's name of a
\* generated proxy, or the placeholder string of an ungenerated one.
C8_NormalizedItems ==
    \A acceptungenerated \in BOOLEAN :
        LET r == get_normalized_items(config_items, config_settings, proxies,
                                      acceptungenerated)
        IN  IF ~acceptungenerated /\ \E i \in 1..Len(config_items) : Ungenerated(i)
            THEN r.exc = "ValueError"
            ELSE /\ r.exc = "None"
                 /\ Len(r.elems) = Len(config_items)
                 /\ \A i \in 1..Len(config_items) :
                        r.elems[i] = <<config_items[i], ResolvedValue(i)>>

C8_Witness ==
    /\ lastop.op = "get_normalized_items"
    /\ lastop.exc = "None"
    /\ config_settings[nameA] = Px(<<"out1">>)
    /\ lastop.out = <<<<nameA, PROXY_OUTPUT_FILE_NOT_PRESENT>>, <<nameB, <<"y">>>>>>

----------------------------------------------------------------------------
(* Properties of the configuration store, under SpecCfg *)

\* C6: cfg[key] = value for a declared key makes cfg[key] return value,
\* whether value is a str or a proxy; cfg[key] = value and cfg[key] for an
\* undeclared key raise KeyError and leave the store and the proxies as
\* they were.
C6_SetThenGet ==
    [][ /\ \A key \in KeyInputs, value \in CfgValues :
               SetItem(key, value) =>
                   IF InItems(key, config_items)
                   THEN /\ lastop'.exc = "None"
                        /\ getitem(config_settings', key)
                               = [exc |-> "None", result |-> value]
                   ELSE /\ lastop'.exc = "KeyError"
                        /\ UNCHANGED <<storeVars, proxies>>
        /\ \A key \in KeyInputs :
               GetItem(key) =>
                   IF InItems(key, config_items)
                   THEN lastop'.exc = "None" /\ lastop'.result = config_settings[key]
                   ELSE lastop'.exc = "KeyError" /\ UNCHANGED <<storeVars, proxies>>
      ]_vars

C6_Witness ==
    /\ lastop.op = "getitem"
    /\ lastop.exc = "None"
    /\ lastop.result = Px(<<"in1">>)
    /\ proxies[<<"in1">>].configname = nameB

\* C7: for every name, cfg.<name> and cfg[<name>] give the same value or
\* raise the same error, and cfg.<name> = value and cfg[<name>] = value
\* have the same effect or raise the same error.
C7_AttrEqualsItem ==
    pc = "idle" =>
        \A name \in KeyInputs :
            /\ getattr(config_items, config_settings, inst_dict, name)
                   = getitem(config_settings, name)
            /\ \A value \in AttrValues :
                   LET a == setattr(config_items, config_settings, proxies, inst_dict,
                                    name, value)
                       m == setitem(config_items, config_settings, proxies, name, value)
                   IN  /\ a.exc = m.exc
                       /\ a.settings = m.settings
                       /\ a.px = m.px
                       /\ a.dict = inst_dict

\* C9: when no proxy lacks its temp file, get_cmdline_arguments() is the
\* sequence -NAME, VALUE of the items and get_file_contents() the lines
\* NAME VALUE joined by newlines, in item order, and each item of the store
\* occurs in them exactly once.
C9_EachItemOnce ==
    pc = "idle" =>
        LET r == get_normalized_items(config_items, config_settings, proxies, FALSE)
            args == get_cmdline_arguments(config_items, config_settings, proxies).val
            text == get_file_contents(config_items, config_settings, proxies).val
            n == Len(r.elems)
        IN  r.exc = "None" =>
                /\ Len(args) = 2 * n
                /\ \A i \in 1..n : /\ args[2 * i - 1] = <<"-">> \o r.elems[i][1]
                                   /\ args[2 * i] = r.elems[i][2]
                /\ text = Join(<<"\n">>,
                               [i \in 1..n |-> r.elems[i][1] \o <<" ">> \o r.elems[i][2]])
                /\ [i \in 1..n |-> r.elems[i][1]] = config_items
                /\ \A name \in DOMAIN config_settings :
                       Cardinality({i \in 1..n : r.elems[i][1] = name}) = 1

\* the store parsed from `text` has the (name, value) pairs of this store
\* and the same file contents
RoundTrips(text) ==
    LET st == parse_config_file(text) IN
    /\ st.exc = "None"
    /\ get_normalized_items(st.items, st.settings, proxies, FALSE)
           = get_normalized_items(config_items, config_settings, proxies, FALSE)
    /\ get_file_contents(st.items, st.settings, proxies).val = text

\* a value the file format can hold: no comment character, no line break,
\* no white space at either end
Clean(s) ==
    /\ \A i \in 1..Len(s) : s[i] \notin {"#", "\n"}
    /\ s # <<>> => ~IsSpace(s[1]) /\ ~IsSpace(s[Len(s)])

\* C10 as stated: for any store, parsing the string get_file_contents()
\* returns gives the same ordered (name, value) pairs, and its file contents
\* are the same string.
C10_Original ==
    pc = "idle" =>
        LET fc == get_file_contents(config_items, config_settings, proxies)
        IN  fc.exc = "None" => RoundTrips(fc.val)

\* C10 amended: ... for any store built from a dump whose values contain no
\* `#` and no line break and have no white space at either end.
C10_RoundTrip ==
    pc = "idle" =>
        LET fc == get_file_contents(config_items, config_settings, proxies)
            r == get_normalized_items(config_items, config_settings, proxies, FALSE)
        IN  (fc.exc = "None" /\ \A i \in 1..Len(r.elems) : Clean(r.elems[i][2]))
                => /\ RoundTrips(fc.val)
                   /\ lastop.op = "reload" =>
                          /\ lastop.exc = "None"
                          /\ lastop.out = fc.val
                          /\ lastop.store = parse_config_file(fc.val)

C10_Witness ==
    /\ lastop.op = "reload"
    /\ lastop.exc = "None"
    /\ Len(config_items) = 2
    /\ config_settings[config_items[1]] = Lit(<<>>)
    /\ lastop.store.items = config_items
    /\ lastop.store.settings = config_settings

----------------------------------------------------------------------------
(* Properties of proxy binding and of the parser *)

\* C12: an assignment cfg[key] = p or cfg.<key> = p of a proxy p to a
\* declared item sets p.configname to key, whatever it was before; no other
\* step (assigning a str, any step of an invocation, the release in its
\* finally block) changes the configname of any proxy.
C12_BoundOnlyByAssignment ==
    [][ /\ \A key \in KeyInputs, p \in ProxyIds :
               ( /\ SetItem(key, Px(p)) \/ SetAttr(key, Px(p))
                 /\ InItems(key, config_items) )
                   => proxies'[p].configname = key
        /\ \A p \in ProxyIds :
               proxies'[p].configname # proxies[p].configname
                   => \E key \in KeyInputs :
                          /\ SetItem(key, Px(p)) \/ SetAttr(key, Px(p))
                          /\ InItems(key, config_items)
      ]_vars

C12_Witness ==
    /\ pc = "return"
    /\ config_settings[nameA] = Px(<<"out1">>)
    /\ config_settings[nameB] = Px(<<"out1">>)
    /\ proxies[<<"out1">>].configname = nameB
    /\ proxies[<<"out1">>].content = ChildOutput

\* C18: the ordered name list of a store holds each name at most once,
\* after construction from any dump and after any assignments.
C18_UniqueNames ==
    pc = "idle" =>
        \A i, j \in 1..Len(config_items) : config_items[i] = config_items[j] => i = j

\* C19: every item whose value is a proxy holds a proxy whose configname is
\* that item's name, so no proxy is the value of two items.
C19_BoundToItsItem ==
    pc = "idle" =>
        \A i \in 1..Len(config_items) :
            LET val == config_settings[config_items[i]]
            IN  val.kind = "proxy" => proxies[val.v].configname = config_items[i]

\* the dump  OPT1 5 # first\nOPT2 hello\n
OPT1 == <<"O", "P", "T", "1">>
OPT2 == <<"O", "P", "T", "2">>
DumpOpt ==
    OPT1 \o <<" ", "5", " ", "#", " ", "f", "i", "r", "s", "t", "\n">>
         \o OPT2 \o <<" ", "h", "e", "l", "l", "o", "\n">>

\* the text after the (first) `#` of line l, without the white space
\* around it
CommentText(l) == LET ls == Split(l, "#") IN IF Len(ls) > 1 THEN Strip(ls[2]) ELSE <<>>

\* C20: the dump  OPT1 5 # first\nOPT2 hello\n  parses to the items
\* (OPT1, 5), (OPT2, hello) with the comment `first` for OPT1 and has the
\* file contents  OPT1 5\nOPT2 hello; and a store constructed from a dump of
\* content lines NAME VALUE [# COMMENT] has the names in line order, and
\* for each line the value and the comment written on it.
C20_ParsedAsWritten ==
    /\ LET st == parse_config_file(DumpOpt) IN
       /\ st.exc = "None"
       /\ st.items = <<OPT1, OPT2>>
       /\ st.settings[OPT1] = Lit(<<"5">>)
       /\ st.settings[OPT2] = Lit(<<"h", "e", "l", "l", "o">>)
       /\ st.comments[OPT1] = <<"f", "i", "r", "s", "t">>
       /\ get_file_contents(st.items, st.settings, proxies).val
              = OPT1 \o <<" ", "5", "\n">> \o OPT2 \o <<" ", "h", "e", "l", "l", "o">>
    /\ (lastop.op = "init" /\ initial_cfgstr = Join(<<"\n">>, <<LineAx, LineByc, <<>>>>)) =>
           /\ config_items = <<nameA, nameB>>
           /\ config_settings[nameA] = Lit(<<"x">>)
           /\ config_settings[nameB] = Lit(<<"y">>)
           /\ config_comments[nameA] = CommentText(LineAx)
           /\ config_comments[nameB] = CommentText(LineByc)

\* the kinds of line of a dump: ignored, continuation of a comment, content
IsIgnoredLine(l) == l = <<>> \/ l[1] = "#" \/ \A i \in 1..Len(l) : IsSpace(l[i])
IsContinuationLine(l) ==
    /\ ~IsIgnoredLine(l)
    /\ \E i \in 1..Len(l) : l[i] = "#" /\ \A j \in 1..(i - 1) : IsSpace(l[j])
IsContentLine(l) == ~IsIgnoredLine(l) /\ ~IsContinuationLine(l)
ContentLinesBefore(lines, i) ==
    Cardinality({j \in 1..(i - 1) : IsContentLine(lines[j])})

\* C21: of the lines of a dump, the blank ones and those starting with `#`
\* make no item; a line with only white space before its `#` makes no item
\* and its comment text is added to the comment of the item of the content
\* line before it; when there is no such item the constructor raises and
\* no store exists.
C21_CommentLines ==
    LET lines == Split(initial_cfgstr, "\n")
        orphans == {i \in 1..Len(lines) :
                       IsContinuationLine(lines[i]) /\ ContentLinesBefore(lines, i) = 0}
    IN  lastop.op = "init" =>
            IF orphans # {}
            THEN pc = "failed" /\ lastop.exc # "None"
            ELSE /\ pc = "idle"
                 /\ Len(config_items) = ContentLinesBefore(lines, Len(lines) + 1)
                 /\ \A i \in 1..Len(lines) :
                       IsContinuationLine(lines[i]) =>
                           LET item == config_items[ContentLinesBefore(lines, i)]
                               text == CommentText(lines[i])
                               c == config_comments[item]
                           IN  /\ Len(c) >= Len(text)
                               /\ SubSeq(c, Len(c) - Len(text) + 1, Len(c)) = text

\* a store built from a dump with a comment line, a blank line and a
\* continuation line after its only item
C21_Witness ==
    /\ lastop.op = "init"
    /\ pc = "idle"
    /\ initial_cfgstr = Join(<<"\n">>, <<LineFull, LineAx, LineBlank, LineCont>>)
    /\ config_items = <<nameA>>
    /\ config_comments[nameA] = <<" ", "k">>

----------------------------------------------------------------------------
(* Properties of the drivers, under SpecDrv *)

\* the text of the kernel default.conv (grave accents as apostrophes)
KernelDefault ==
    <<"C", "O", "N", "V", " ", "N", "O", "R", "M", "\n", "#", " ", "3", "x",
      "3", " ", "'", "'", "a", "l", "l", "-", "g", "r", "o", "u", "n", "d",
      "'", "'", " ", "c", "o", "n", "v", "o", "l", "u", "t", "i", "o", "n",
      " ", "m", "a", "s", "k", " ", "w", "i", "t", "h", " ", "F", "W", "H",
      "M", " ", "=", " ", "2", " ", "p", "i", "x", "e", "l", "s", ".", "\n",
      "1", " ", "2", " ", "1", "\n", "2", " ", "4", " ", "2", "\n", "1", " ",
      "2", " ", "1">>

\* the text of the kernel block_3x3.conv
KernelBlock ==
    <<"C", "O", "N", "V", " ", "N", "O", "R", "M", "\n", "#", " ", "3", "x",
      "3", " ", "c", "o", "n", "v", "o", "l", "u", "t", "i", "o", "n", " ",
      "m", "a", "s", "k", " ", "o", "f", " ", "a", " ", "b", "l", "o", "c",
      "k", "-", "f", "u", "n", "c", "t", "i", "o", "n", " ", "P", "S", "F",
      " ", "(", "e", "x", ":", " ", "D", "e", "N", "I", "S", " ", "P", "S",
      "F", ")", ".", "\n", "1", " ", "1", " ", "1", "\n", "1", " ", "1", " ",
      "1", "\n", "1", " ", "1", " ", "1">>

KernelText(fname) == IF fname = DefaultFilter THEN KernelDefault ELSE KernelBlock

\* C13: choose_conv_filter(name) with the name of a built-in kernel makes
\* FILTER_NAME an input proxy bound to FILTER_NAME whose content is the text
\* of that kernel; with any other name it raises ValueError and changes
\* neither the store nor any proxy.
C13_ChooseConvFilter ==
    [][\A fname \in FilterInputs :
          ChooseConvFilter(fname) =>
              IF fname \in {DefaultFilter, BlockFilter}
              THEN /\ lastop'.exc = "None"
                   /\ config_settings'[FILTER_NAME].kind = "proxy"
                   /\ config_settings'[FILTER_NAME].v \in InputProxyIds
                   /\ proxies'[config_settings'[FILTER_NAME].v].configname = FILTER_NAME
                   /\ proxies'[config_settings'[FILTER_NAME].v].content = KernelText(fname)
                   /\ \A i \in 1..Len(config_items) :
                         config_items[i] # FILTER_NAME =>
                             config_settings'[config_items[i]] =
                                 config_settings[config_items[i]]
              ELSE /\ lastop'.exc = "ValueError"
                   /\ UNCHANGED <<storeVars, proxies>>]_vars

\* choose_conv_filter('block_3x3') has replaced the default kernel
C13_Witness ==
    /\ lastop.op = "choose_conv_filter"
    /\ lastop.out = <<BlockFilter>>
    /\ lastop.exc = "None"
    /\ proxies[config_settings[FILTER_NAME].v].content = KernelBlock

\* C16: when no executable path is given and the search of PATH finds
\* nothing, the constructor emits a warning and returns a driver whose
\* execpath is None.
C16_NoHardFailure ==
    tool.warnings > 0 => /\ pc = "idle"
                         /\ tool.cls # "none"
                         /\ tool.execpath = None

\* C11: get_output on a proxy catalogue whose content was never generated
\* raises instead of returning a value.
C11_NotYetGenerated ==
    (/\ lastop.op = "get_output"
     /\ config_settings[CATALOG_NAME].kind = "proxy"
     /\ proxies[config_settings[CATALOG_NAME].v].content = None)
        => lastop.exc # "None"

\* the catalogue as get_output finds it: the proxy's content or the file's
CatalogContent ==
    IF config_settings[CATALOG_NAME].kind = "proxy"
    THEN proxies[config_settings[CATALOG_NAME].v].content
    ELSE IF isfile(fs, config_settings[CATALOG_NAME].v)
    THEN fs[config_settings[CATALOG_NAME].v]
    ELSE None

\* CATALOG_TYPE names none of the formats get_output reads as a table
UnrecognizedType ==
    LET lcattype == lower(config_settings[CATALOG_TYPE].v)
    IN  /\ ~Contains(lcattype, <<"v", "o", "t", "a", "b", "l", "e">>)
        /\ ~Contains(lcattype, <<"a", "s", "c", "i", "i">>)
        /\ ~Contains(lcattype, <<"f", "i", "t", "s">>)

\* C15: when CATALOG_TYPE names no recognized format, get_output returns
\* the catalogue's content as it is, whether or not a table was asked for.
C15_RawWhenUnrecognized ==
    (/\ lastop.op = "get_output"
     /\ UnrecognizedType
     /\ CatalogContent # None)
        => /\ lastop.exc = "None"
           /\ lastop.result = Raw(CatalogContent)

\* C14: with automatic decompression and keeptemps false, after
\* sextract_single, sextract_double or swarp_images has returned or raised,
\* none of the decompressed copies it created is on disk.
C14_NoCopyRemains ==
    (/\ lastop.op \in {"sextract_single", "sextract_double", "swarp_images"}
     /\ tool.autodecompress
     /\ ~tool.keeptemps)
        => tool.copies \cap DOMAIN fs = {}

\* C17: swarp_images called without header files or without weight files
\* does not fail for the lack of them.
C17_ListsOptional ==
    (/\ lastop.op = "swarp_images"
     /\ \/ lastop.result.v[1] = NoList
        \/ lastop.result.v[2] = NoList)
        => lastop.exc # "TypeError"

----------------------------------------------------------------------------
(* The release of the proxies when one release fails *)

\* the drivers that end in _invoke_tool
InvokingOps == {"sextract_single", "sextract_double", "swarp_images"}

\* C22: when the creation or the removal of one proxy's temporary file fails
\* during an invocation, the invocation ends with an I/O error and every
\* other proxy is released all the same: at most the proxy whose file
\* operation failed keeps a materialized path or a temporary file
C22_OthersReleased ==
    (lastop.op \in InvokingOps /\ lastop.exc \in {"IOError", "OSError"})
        => /\ Cardinality({p \in ProxyIds : proxies[p].tempfileobj # None}) <= 1
           /\ Cardinality(TempNames \cap DOMAIN fs) <= 1

----------------------------------------------------------------------------
(* Two processes that call a driver at the same time.  Each has its own
   driver object and store (one input proxy, automatic decompression on,
   keeptemps off); the file system is the one thing they share.  A call is
   taken in the steps between which the other process can run *)

MaxParCalls == 1                  \* the calls each process makes
ParImgInputs == {ImgA, ImgD, ImgC}
parFrame == <<storeVars, proxies, pc, call, lastop, created, materialized, released, spawned, nops, tool>>

\* sextract_single(imgfn) or swarp_images(imgfn) up to _invoke_tool: the
\* call of _try_decompress
ParDecompress(c, cls, imgfn, dec) ==
    LET Decompressed1(d) ==
            /\ fs' = d.fs
            /\ callers' = [callers EXCEPT ![c] =
                   IF d.exc # "None"
                   THEN [@ EXCEPT !.cls = cls, !.imgfn = imgfn, !.decompfn = None,
                                  !.input = None, !.ncalls = @ + 1]
                   ELSE [@ EXCEPT !.pc = "decompressed", !.cls = cls, !.imgfn = imgfn,
                                  !.decompfn = d.fn, !.input = None]]
    IN  /\ callers[c].pc = "idle"
        /\ callers[c].ncalls < MaxParCalls
        /\ Decompressed1(IF cls = "Sextractor"
                         THEN sextractor_try_decompress(TRUE, fs, imgfn, dec)
                         ELSE swarp_try_decompress(TRUE, fs, imgfn, dec))
        /\ UNCHANGED parFrame

\* _invoke_tool: the temporary file of the input proxy is made
ParPrepare(c) ==
    /\ callers[c].pc = "decompressed"
    /\ FreeTempNames(fs) # {}
    /\ fs' = WriteFile(fs, NamedTemporaryFile(fs), <<"k">>)
    /\ callers' = [callers EXCEPT ![c].pc = "prepared",
                                  ![c].tempfileobj = NamedTemporaryFile(fs)]
    /\ UNCHANGED parFrame

\* _invoke_tool: the child process runs and reads the image it was given
ParRun(c) ==
    LET fn == IF callers[c].decompfn = None THEN callers[c].imgfn ELSE callers[c].decompfn
    IN  /\ callers[c].pc = "prepared"
        /\ callers' = [callers EXCEPT ![c].pc = "ran",
                                      ![c].input = IF isfile(fs, fn) THEN fs[fn] ELSE None]
        /\ UNCHANGED <<fs, parFrame>>

\* _invoke_tool's finally block: the proxy is released
ParRelease(c) ==
    /\ callers[c].pc = "ran"
    /\ fs' = RemoveFiles(fs, <<callers[c].tempfileobj>>)
    /\ callers' = [callers EXCEPT ![c].pc = "released", ![c].tempfileobj = None]
    /\ UNCHANGED parFrame

\* the driver's finally block: the decompressed file is removed
ParCleanup(c) ==
    /\ callers[c].pc = "released"
    /\ fs' = RemoveFiles(fs, <<callers[c].decompfn>>)
    /\ callers' = [callers EXCEPT ![c].pc = "idle", ![c].decompfn = None,
                                  ![c].ncalls = @ + 1]
    /\ UNCHANGED parFrame

NextPar ==
    \/ \E c \in Callers, cls \in {"Sextractor", "Swarp"}, imgfn \in ParImgInputs,
          dec \in DecInputs : ParDecompress(c, cls, imgfn, dec)
    \/ \E c \in Callers : ParPrepare(c)
    \/ \E c \in Callers : ParRun(c)
    \/ \E c \in Callers : ParRelease(c)
    \/ \E c \in Callers : ParCleanup(c)

SpecPar == InitDrv /\ [][NextPar]_vars

\* the temporary files a call holds
TempFilesOf(c) == {callers[c].decompfn, callers[c].tempfileobj} \ {None}

\* C23: while two calls are in progress no temporary file (proxy file or
\* decompressed copy) of one has the name of a temporary file of the other,
\* and the child process of each call finds the image file it was given
C23_NamesUnique ==
    /\ \A c, d \in Callers :
          (c # d /\ callers[c].pc # "idle" /\ callers[d].pc # "idle")
              => TempFilesOf(c) \cap TempFilesOf(d) = {}
    /\ \A c \in Callers : callers[c].pc = "ran" => callers[c].input # None

----------------------------------------------------------------------------
(* Sextractor: renaming the outputs of a run *)

XML_NAME == <<"X", "M", "L", "_", "N", "A", "M", "E">>
CHECKIMAGE_NAME ==
    <<"C", "H", "E", "C", "K", "I", "M", "A", "G", "E", "_", "N", "A", "M", "E">>
XmlFile == <<"x">>

\* str.format(path=..., fn=..., object=..., input=...) for a template whose
\* replacement fields are plain field names
RECURSIVE format(_, _)
format(template, fields) ==
    IF template = <<>> THEN <<>>
    ELSE IF Head(template) = "{"
    THEN LET close == CHOOSE k \in 2..Len(template) :
                          template[k] = "}" /\ \A j \in 2..(k - 1) : template[j] # "}"
         IN  fields[SubSeq(template, 2, close - 1)]
                 \o format(SubSeq(template, close + 1, Len(template)), fields)
    ELSE <<Head(template)>> \o format(Tail(template), fields)

\* self.renameoutputs.format(path=path + ('' if path.endswith(os.path.sep) or
\* path == '' else os.path.sep), fn=fn, object=object_, input=input_), with
\* object_ None (the template has no {object})
RenamedName(renameoutputs, path, fn, input) ==
    format(renameoutputs,
           (<<"p", "a", "t", "h">> :>
                (IF path = <<>> \/ path[Len(path)] = "/" THEN path ELSE path \o <<"/">>))
           @@ (<<"f", "n">> :> fn)
           @@ (<<"o", "b", "j", "e", "c", "t">> :> None)
           @@ (<<"i", "n", "p", "u", "t">> :> input))

\* Sextractor.get_renamed_output_fns(): catmap and xmlmap as one pair
\* <<old, new>> each, cimgmap as the list of its pairs
get_renamed_output_fns(t, settings) ==
    LET input == BeforeFirst(basename(t.lastimgfn), DotFits)
        Renamed(oldfn) ==
            <<oldfn, RenamedName(t.renameoutputs, dirname(oldfn), basename(oldfn), input)>>
        CheckImage(entry) ==
            LET cimgfn == Strip(entry) \o DotFits                  \* just in case
            IN  <<cimgfn,
                  RenamedName(t.renameoutputs,
                              IF t.checkimgpath # None /\ t.checkimgpath # <<>>
                              THEN t.checkimgpath ELSE dirname(cimgfn),
                              basename(cimgfn), input)>>
        entries == Split(settings[CHECKIMAGE_NAME].v, ",")
    IN  [cat |-> Renamed(settings[CATALOG_NAME].v),
         xml |-> Renamed(settings[XML_NAME].v),
         cimg |-> [i \in 1..Len(entries) |-> CheckImage(entries[i])]]

\* shutil.move(ofn, nfn) for each pair whose ofn is a file
RECURSIVE MoveFiles(_, _)
MoveFiles(files, pairs) ==
    IF pairs = <<>> THEN files
    ELSE LET ofn == Head(pairs)[1]
             nfn == Head(pairs)[2]
         IN  MoveFiles(IF isfile(files, ofn) /\ ofn # nfn
                       THEN WriteFile(remove(files, ofn), nfn, files[ofn])
                       ELSE files,
                       Tail(pairs))

\* Sextractor._rename_outputs()
rename_outputs(t, settings, files) ==
    LET Moved(maps) == MoveFiles(files, <<maps.cat, maps.xml>> \o maps.cimg)
    IN  Moved(get_renamed_output_fns(t, settings))

\* the rename templates, check image settings and check image directories
\* a caller uses
RenameTemplates ==
    { <<"{", "p", "a", "t", "h", "}", "{", "i", "n", "p", "u", "t", "}", "_", "{", "f", "n", "}">>,
      <<"{", "i", "n", "p", "u", "t", "}", ".", "o">>,
      <<"r", "/", "{", "f", "n", "}">> }
CheckImageInputs ==
    { <<"k", ".", "f", "i", "t", "s">>,
      <<"k">>,
      <<"k", ",", " ", "d", "/", "k">> }
CheckImgPaths == {None, <<"q">>}

\* the files the tool writes for a run: the catalog, the XML file and the
\* check images, each under its configured name
Artifacts(settings) ==
    {settings[CATALOG_NAME].v, settings[XML_NAME].v}
        \cup {Strip(e) : e \in {Split(settings[CHECKIMAGE_NAME].v, ",")[i] :
                                    i \in 1..Len(Split(settings[CHECKIMAGE_NAME].v, ","))}}

\* a Sextractor with renameoutputs set that has run on c.fits; of the files
\* the tool could write any may be there, each holding its own name
InitRen ==
    \E template \in RenameTemplates, cimg \in CheckImageInputs, cpath \in CheckImgPaths :
        LET dump == Join(<<"\n">>, <<CATALOG_NAME \o <<" ">> \o CatFile,
                                     XML_NAME \o <<" ">> \o XmlFile,
                                     CHECKIMAGE_NAME \o <<" ">> \o cimg>>)
            Made(st) ==
                /\ initial_cfgstr = dump
                /\ config_items = st.items
                /\ config_settings = st.settings
                /\ config_comments = st.comments
                /\ \E present \in SUBSET Artifacts(st.settings) :
                       fs = [n \in present \cup {ImgC} |-> n]
        IN  /\ Made(parse_config_file(dump))
            /\ inst_dict = <<>>
            /\ proxies = InitProxies
            /\ pc = "idle"
            /\ call = NoCall
            /\ lastop = NoOp
            /\ created = {}
            /\ materialized = {}
            /\ released = [p \in ProxyIds |-> 0]
            /\ spawned = 0
            /\ nops = 0
            /\ tool = [NoTool EXCEPT !.cls = "Sextractor", !.execpath = EXECPATH,
                                     !.renameoutputs = template, !.checkimgpath = cpath,
                                     !.lastimgfn = ImgC]
            /\ callers = [c \in Callers |-> NoCaller]

\* sex.get_renamed_output_fns(): out is the list of all <<old, new>> pairs
GetRenamedOutputFns ==
    LET Got(maps) ==
            lastop' = [NoOp EXCEPT !.op = "get_renamed_output_fns",
                                   !.out = <<maps.cat, maps.xml>> \o maps.cimg]
    IN  /\ pc = "idle" /\ tool.renameoutputs # None
        /\ Got(get_renamed_output_fns(tool, config_settings))
        /\ UNCHANGED <<storeVars, proxies, fs, pc, ghostVars, nops, tool, callers>>

\* the renaming at the end of sextract_single: out is the file system as it
\* was before
RenameOutputs ==
    /\ pc = "idle" /\ tool.renameoutputs # None
    /\ fs' = rename_outputs(tool, config_settings, fs)
    /\ lastop' = [NoOp EXCEPT !.op = "rename_outputs", !.out = fs]
    /\ UNCHANGED <<storeVars, proxies, pc, ghostVars, nops, tool, callers>>

NextRen ==
    \/ GetRenamedOutputFns
    \/ RenameOutputs

SpecRen == InitRen /\ [][NextRen]_vars

\* C24: after the renaming, which raises nothing, every artifact that
\* existed (catalog, XML file, check image) has been moved: it is at its old
\* name no longer, unless another was moved there or the template maps the
\* name to itself; the absent ones are passed over
C24_BestEffort ==
    lastop.op = "rename_outputs"
        => /\ lastop.exc = "None"
           /\ \A a \in Artifacts(config_settings) \cap DOMAIN lastop.out :
                  \/ a \notin DOMAIN fs
                  \/ fs[a] # lastop.out[a]
                  \/ RenamedName(tool.renameoutputs, dirname(a), basename(a),
                                 BeforeFirst(basename(tool.lastimgfn), DotFits)) = a

\* C30: the renaming maps the catalog, the XML file and the check images to
\* pairwise distinct destinations whenever their original names are
\* distinct, whatever the template
C30_DistinctDestinations ==
    lastop.op = "get_renamed_output_fns"
        => \A i, j \in 1..Len(lastop.out) :
               lastop.out[i][1] # lastop.out[j][1] => lastop.out[i][2] # lastop.out[j][2]

----------------------------------------------------------------------------
(* The output proxies of an invocation that fails *)

\* C25: the content of an output proxy changes in the read-back loop only,
\* and that loop is reached only by an invocation in which nothing has
\* failed: an invocation that fails before it leaves every output proxy's
\* content as it was
C25_ContentKept ==
    /\ [](pc = "readback" => call.exc = "None")
    /\ [][(pc # "readback" \/ call.exc # "None")
              => \A p \in OutputProxyIds : proxies'[p].content = proxies[p].content]_vars

\* an invocation has failed on the return code, after its output proxy was
\* given a file, and the proxy still has the content of an earlier run
C25_Witness ==
    /\ pc = "return"
    /\ call.exc = "AstromaticError"
    /\ call.outproxies # <<>>
    /\ \A i \in 1..Len(call.outproxies) :
           /\ call.outproxies[i] \in materialized
           /\ proxies[call.outproxies[i]].content = ChildOutput

----------------------------------------------------------------------------
(* Sextractor: the parameter file of an invocation *)

\* C26: whatever reset_outputs, add_outputs and set_outputs_from_scamp have
\* made of the output list, the parameter file the child of a Sextractor
\* invocation finds holds exactly that list, one name per line and in order,
\* and between calls the parameter proxy holds the placeholder text again,
\* whether the invocation succeeded or failed
C26_ParameterFile ==
    (tool.cls = "Sextractor" /\ pc = "idle"
        /\ config_settings[PARAMETERS_NAME] = Px(ParametersProxy))
        => /\ proxies[ParametersProxy].content = PARAMETERS_PLACEHOLDER
           /\ (lastop.op \in {"sextract_single", "sextract_double"}
                  /\ ParametersProxy \in DOMAIN lastop.result.v)
                  => lastop.result.v[ParametersProxy] = Join(<<"\n">>, tool.outputs)

\* an invocation has run with an output list that add_outputs had extended
C26_Witness ==
    /\ lastop.op = "sextract_single"
    /\ lastop.exc = "None"
    /\ ParametersProxy \in DOMAIN lastop.result.v
    /\ tool.outputs = Append(DefaultOutputs, ScampOutputs[3])
    /\ lastop.result.v[ParametersProxy] = Join(<<"\n">>, Append(DefaultOutputs, ScampOutputs[3]))
    /\ proxies[ParametersProxy].content = PARAMETERS_PLACEHOLDER

\* an invocation has failed on its return code and the placeholder is back
C26_WitnessFailure ==
    /\ lastop.op = "sextract_single"
    /\ lastop.exc = "AstromaticError"
    /\ ParametersProxy \in DOMAIN lastop.result.v
    /\ proxies[ParametersProxy].content = PARAMETERS_PLACEHOLDER

----------------------------------------------------------------------------
(* The items a driver overrides for the time of a run *)

\* the argument list has the option of the item followed by the value
SeesItem(argv, name, value) ==
    \E i \in 1..(Len(argv) - 1) : argv[i] = <<"-">> \o name /\ argv[i + 1] = value

\* C27: a call of swarp_images leaves WEIGHT_IMAGE and FSCALE_DEFAULT, and a
\* call of scamp_catalogs leaves CHECKPLOT_DEV, with the value it had before
\* the call, however the call ends; the child process of the call, when one
\* was started, was given the overriding values (an empty WEIGHT_IMAGE, the
\* flux scales when fluxscalebytexp is set, PSC for a device that does not
\* make postscript when pstopdf is set)
C27_Restored ==
    [][/\ lastop'.op = "swarp_images"
          => /\ config_settings'[WEIGHT_IMAGE] = config_settings[WEIGHT_IMAGE]
             /\ config_settings'[FSCALE_DEFAULT] = config_settings[FSCALE_DEFAULT]
             /\ lastop'.result.v[3] # None
                   => /\ SeesItem(lastop'.result.v[3], WEIGHT_IMAGE, <<>>)
                      /\ tool.fluxscalebytexp
                            => SeesItem(lastop'.result.v[3], FSCALE_DEFAULT,
                                        Join(<<",">>, [i \in 1..Len(lastop'.out) |-> FScale]))
       /\ lastop'.op = "scamp_catalogs"
          => /\ config_settings'[CHECKPLOT_DEV] = config_settings[CHECKPLOT_DEV]
             /\ (lastop'.result.v[2] # None /\ tool.pstopdf
                    /\ config_settings[CHECKPLOT_DEV].v \notin {PSC, <<"P", "S">>})
                   => SeesItem(lastop'.result.v[2], CHECKPLOT_DEV, PSC)]_vars

\* swarp has run with an empty WEIGHT_IMAGE and the flux scale of its
\* image, and the store has w and 1 again
C27_Witness ==
    /\ lastop.op = "swarp_images"
    /\ lastop.exc = "None"
    /\ tool.fluxscalebytexp
    /\ lastop.result.v[3] # None
    /\ SeesItem(lastop.result.v[3], WEIGHT_IMAGE, <<>>)
    /\ SeesItem(lastop.result.v[3], FSCALE_DEFAULT, FScale)
    /\ config_settings[WEIGHT_IMAGE] = Lit(<<"w">>)
    /\ config_settings[FSCALE_DEFAULT] = Lit(<<"1">>)

\* scamp has failed on its return code after it was given PSC, and the store
\* has PNG again
C27_WitnessScamp ==
    /\ lastop.op = "scamp_catalogs"
    /\ lastop.exc = "AstromaticError"
    /\ lastop.result.v[2] # None
    /\ SeesItem(lastop.result.v[2], CHECKPLOT_DEV, PSC)
    /\ config_settings[CHECKPLOT_DEV] = Lit(PNG)

----------------------------------------------------------------------------
(* Sextractor: loading a configuration from an XML file *)

\* C28: a load_cfg_from_xml that raises leaves the value of every item, the
\* output list and lastimgfn as they were before the call
C28_AllOrNothing ==
    [][(lastop'.op = "load_cfg_from_xml" /\ lastop'.exc # "None")
          => /\ config_settings' = config_settings
             /\ tool'.outputs = tool.outputs
             /\ tool'.lastimgfn = tool.lastimgfn]_vars

\* a load has raised on an invalid output column, after it had applied the
\* catalog type and emptied the output list: the store has the catalog type
\* of the dump and the driver its default columns
C28_Witness ==
    /\ lastop.op = "load_cfg_from_xml"
    /\ lastop.exc = "ValueError"
    /\ lastop.result.v = <<ScampOutputs[3], <<"B", "O", "G", "U", "S">>>>
    /\ config_settings[CATALOG_TYPE] = Lit(ASCII)
    /\ tool.outputs = DefaultOutputs
    /\ tool.lastimgfn = None

----------------------------------------------------------------------------
(* Swarp: what a call removes *)

\* C29: swarp_images with keeptemps off removes nothing but what the call
\* itself made: every file and link that was there before the call, a
\* decompressed file it reused and a header or weight link it found in
\* place included, is there after it
C29_OnlyOwnFilesRemoved ==
    [][(lastop'.op = "swarp_images" /\ ~tool.keeptemps)
          => DOMAIN fs \subseteq DOMAIN fs']_vars

====
